---- MODULE Spec2Model ----
(***************************************************************************)
(* A model of the rockusb protocol engine:                                 *)
(*   - the MSC-style operation state machine (UsbOperation::step),         *)
(*   - the MaskRom upload engine (MaskRomOperation::step),                 *)
(*   - the sector-buffered block adapter (DeviceIOInner / TransportIO).    *)
(* Each part has its own specification (SpecOp, SpecMaskRom, SpecIO); the  *)
(* variables of the other parts stay at their idle values.                 *)
(***************************************************************************)
EXTENDS Integers, Sequences, FiniteSets, TLC

VARIABLES
    \* --- UsbOperation (operation.rs) ---
    command,        \* the CommandBlock of the operation
    command_bytes,  \* [u8; 31] scratch shared by the CBW and the CSW
    op_data,        \* IOBytes: [kind |-> "Inband"|"Read"|"Write", bytes |-> ...]
    next,           \* Operation: "CommandBlock" | "IO" | "CommandStatus" | "Finish"
    result_type,    \* the T of UsbOperation<T>
    op_steps,       \* the steps returned by step() so far, in order
    \* --- MaskRomOperation (operation.rs) ---
    mr_data,        \* the blob (&[u8])
    written,        \* write cursor
    block,          \* [u8; 4096]
    area,           \* u16
    steps,          \* MaskRomSteps: [st |-> "Writing", crc |-> digest] | Dummy | Done
    fed,            \* (history) every byte handed to crc.update, in order
    mr_steps,       \* the steps returned by step() so far, in order
    \* --- DeviceIOInner / TransportIO (device.rs, libusb.rs) ---
    offset,         \* read/write offset in bytes
    size,           \* device size in bytes
    buffer,         \* [u8; 512] sector buffer
    state,          \* BufferState: "Invalid" | "Valid" | "Dirty"
    flash,          \* the device's sectors: sector number -> 512 bytes
    calls,          \* (history) the adapter calls made so far with their outcome
    read_buf,       \* (history) the bytes the last read call stored in the caller's buffer
    modified,       \* (history) the buffer positions written through the buffer since it was loaded
    sector_at_write,\* (history) the device's copy of the current sector when the last write began
    \* --- DeviceIOAsync / nusb TransportIO (device.rs, nusb.rs) ---
    io_state,       \* IoState: Idle(Some(inner)) or the Read / Write / Flush future in flight
    polls,          \* (history) the poll_* calls made so far with their outcome
    \* --- CommandBlock / CommandStatus on the wire (protocol.rs) ---
    sent,           \* the value last encoded with to_bytes and the length to_bytes returned
    wire_bytes,     \* the bytes on the wire
    parsed,         \* the decoder last applied to wire_bytes and what it returned
    \* --- Transport::handle_operation (libusb.rs, nusb.rs) ---
    driver,         \* the loop of handle_operation: transport, status, transfers made, result
    \* --- ExampleDevice (examples/common.rs) ---
    erase,          \* erase_flash: its locals, its position and the erase commands issued
    walker          \* download_boot: the header entries, the position and the reads and uploads made

opVars == <<command, command_bytes, op_data, next, result_type, op_steps>>
mrVars == <<mr_data, written, block, area, steps, fed, mr_steps>>
ioVars == <<offset, size, buffer, state, flash, calls, read_buf, modified, sector_at_write>>
asVars == <<io_state, polls>>
wireVars == <<sent, wire_bytes, parsed>>
trVars == <<driver>>
exVars == <<erase, walker>>
vars == <<opVars, mrVars, ioVars, asVars, wireVars, trVars, exVars>>

(***************************************************************************)
(* Byte-level helpers                                                      *)
(***************************************************************************)
Min(a, b) == IF a <= b THEN a ELSE b

Zeros(n) == [i \in 1..n |-> 0]

\* bytes::BufMut::put_u32 (big-endian)
PutU32BE(v) == << (v \div 16777216) % 256, (v \div 65536) % 256, (v \div 256) % 256, v % 256 >>

\* bytes::BufMut::put_u32_le
PutU32LE(v) == << v % 256, (v \div 256) % 256, (v \div 65536) % 256, (v \div 16777216) % 256 >>

\* bytes::BufMut::put_u16 (big-endian)
PutU16BE(v) == << (v \div 256) % 256, v % 256 >>

\* bytes::Buf::get_u32 (big-endian) of the 4 bytes of b starting at (1-based) position p
GetU32BE(b, p) == b[p] * 16777216 + b[p + 1] * 65536 + b[p + 2] * 256 + b[p + 3]

\* bytes::Buf::get_u32_le
GetU32LE(b, p) == b[p] + b[p + 1] * 256 + b[p + 2] * 65536 + b[p + 3] * 16777216

USBC == <<85, 83, 66, 67>>
USBS == <<85, 83, 66, 83>>

(***************************************************************************)
(* protocol.rs: CommandBlock, CommandStatus                                *)
(***************************************************************************)
COMMAND_BLOCK_BYTES == 31
COMMAND_STATUS_BYTES == 13
SECTOR_SIZE == 512

\* Direction as u8
DirectionByte(d) == IF d = "In" THEN 128 ELSE 0

\* CommandCode values used by the constructors
ReadFlashId == 1
ReadLBA == 20
WriteLBA == 21
ReadFlashInfo == 26
ReadChipInfo == 27

CommandBlock(tag, len, dir, cdb, code, addr, cdlen) ==
    [tag |-> tag, transfer_length |-> len, flags |-> dir, lun |-> 0,
     cdb_length |-> cdb, cd_code |-> code, cd_opcode |-> 0,
     cd_address |-> addr, cd_length |-> cdlen]

CommandBlock_flash_id(tag) == CommandBlock(tag, 5, "In", 6, ReadFlashId, 0, 0)
CommandBlock_flash_info(tag) == CommandBlock(tag, 11, "In", 6, ReadFlashInfo, 0, 0)
CommandBlock_chip_info(tag) == CommandBlock(tag, 16, "In", 6, ReadChipInfo, 0, 0)
CommandBlock_read_lba(tag, start, sectors) ==
    CommandBlock(tag, sectors * SECTOR_SIZE, "In", 10, ReadLBA, start, sectors)
CommandBlock_write_lba(tag, start, sectors) ==
    CommandBlock(tag, sectors * SECTOR_SIZE, "Out", 10, WriteLBA, start, sectors)

\* CommandBlock::to_bytes with the tag put little-endian
CommandBlock_to_bytes_TagLE(c, bytes) ==
    LET enc == USBC \o PutU32LE(c.tag) \o PutU32LE(c.transfer_length)
               \o << DirectionByte(c.flags), c.lun, c.cdb_length, c.cd_code, c.cd_opcode >>
               \o PutU32BE(c.cd_address) \o <<0>> \o PutU16BE(c.cd_length)
    IN [bytes |-> enc \o SubSeq(bytes, Len(enc) + 1, Len(bytes)),
        len |-> COMMAND_BLOCK_BYTES]

\* CommandBlock::to_bytes without the reserved byte between cd_address and cd_length
CommandBlock_to_bytes_NoReserved(c, bytes) ==
    LET enc == USBC \o PutU32BE(c.tag) \o PutU32LE(c.transfer_length)
               \o << DirectionByte(c.flags), c.lun, c.cdb_length, c.cd_code, c.cd_opcode >>
               \o PutU32BE(c.cd_address) \o PutU16BE(c.cd_length)
    IN [bytes |-> enc \o SubSeq(bytes, Len(enc) + 1, Len(bytes)),
        len |-> COMMAND_BLOCK_BYTES]

\* CommandBlock::to_bytes: writes the 24 encoded bytes at the start of `bytes`, leaves
\* the rest of the buffer as it was, and returns COMMAND_BLOCK_BYTES.
CommandBlock_to_bytes(c, bytes) ==
    LET enc == USBC \o PutU32BE(c.tag) \o PutU32LE(c.transfer_length)
               \o << DirectionByte(c.flags), c.lun, c.cdb_length, c.cd_code, c.cd_opcode >>
               \o PutU32BE(c.cd_address) \o <<0>> \o PutU16BE(c.cd_length)
    IN [bytes |-> enc \o SubSeq(bytes, Len(enc) + 1, Len(bytes)),
        len |-> COMMAND_BLOCK_BYTES]

\* CommandStatus::from_bytes as it would be if the status byte were looked at before
\* the signature
CommandStatus_from_bytes_StatusFirst(bytes) ==
    IF Len(bytes) < COMMAND_STATUS_BYTES
    THEN [ok |-> FALSE, err |-> "InvalidLength", arg |-> Len(bytes)]
    ELSE IF bytes[13] \notin {0, 1}
    THEN [ok |-> FALSE, err |-> "InvalidStatus", arg |-> bytes[13]]
    ELSE IF SubSeq(bytes, 1, 4) # USBS
    THEN [ok |-> FALSE, err |-> "InvalidSignature", arg |-> SubSeq(bytes, 1, 4)]
    ELSE [ok |-> TRUE,
          tag |-> GetU32BE(bytes, 5),
          residue |-> GetU32LE(bytes, 9),
          status |-> IF bytes[13] = 0 THEN "SUCCESS" ELSE "FAILED"]

\* CommandStatus::from_bytes
CommandStatus_from_bytes(bytes) ==
    IF Len(bytes) < COMMAND_STATUS_BYTES
    THEN [ok |-> FALSE, err |-> "InvalidLength", arg |-> Len(bytes)]
    ELSE IF SubSeq(bytes, 1, 4) # USBS
    THEN [ok |-> FALSE, err |-> "InvalidSignature", arg |-> SubSeq(bytes, 1, 4)]
    ELSE IF bytes[13] \notin {0, 1}
    THEN [ok |-> FALSE, err |-> "InvalidStatus", arg |-> bytes[13]]
    ELSE [ok |-> TRUE,
          tag |-> GetU32BE(bytes, 5),
          residue |-> GetU32LE(bytes, 9),
          status |-> IF bytes[13] = 0 THEN "SUCCESS" ELSE "FAILED"]

(***************************************************************************)
(* operation.rs: UsbOperation                                              *)
(***************************************************************************)
Ok(v) == [ok |-> TRUE, value |-> v, err |-> "", arg |-> <<>>]
Err(e, a) == [ok |-> FALSE, value |-> <<>>, err |-> e, arg |-> a]

\* impl From<CommandStatusParseError> for UsbOperationError
UsbOperationError_from(e) ==
    CASE e.err = "InvalidSignature" -> Err("InvalidStatusSignature", e.arg)
      [] e.err = "InvalidLength" -> Err("InvalidStatusLength", <<>>)
      [] e.err = "InvalidStatus" -> Err("InvalidStatusStatus", e.arg)

\* The fixed widths of the info payloads ([u8; 16], [u8; 5], [u8; 11])
PayloadWidth(T) ==
    CASE T = "ChipInfo" -> 16
      [] T = "FlashId" -> 5
      [] T = "FlashInfo" -> 11

\* from_operation as it would be if Transferred did not compare the residue with the length
from_operation_NoResidueCheck(T, io, status) ==
    IF T = "Transferred"
    THEN Ok(Len(io) - status.residue)
    ELSE IF Len(io) # PayloadWidth(T)
         THEN Err("ReplyParseFailure", <<>>)
         ELSE Ok(io)

\* impl FromOperation for ChipInfo / FlashId / FlashInfo / Transferred
from_operation(T, io, status) ==
    IF T = "Transferred"
    THEN IF status.residue > Len(io)
         THEN Err("ReplyParseFailure", <<>>)
         ELSE Ok(Len(io) - status.residue)
    ELSE IF Len(io) # PayloadWidth(T)
         THEN Err("ReplyParseFailure", <<>>)
         ELSE Ok(io)

\* The Finish arm without the comparison of the tags
FinishResult_NoTagCheck(cmd, bytes, io, T) ==
    LET csw == CommandStatus_from_bytes(bytes)
    IN IF ~csw.ok THEN UsbOperationError_from(csw)
       ELSE IF csw.status = "FAILED" THEN Err("FailedStatus", <<>>)
       ELSE from_operation(T, SubSeq(io, 1, cmd.transfer_length), csw)

\* The Finish arm without the check of the status
FinishResult_NoStatusCheck(cmd, bytes, io, T) ==
    LET csw == CommandStatus_from_bytes(bytes)
    IN IF ~csw.ok THEN UsbOperationError_from(csw)
       ELSE IF csw.tag = cmd.tag
            THEN from_operation(T, SubSeq(io, 1, cmd.transfer_length), csw)
            ELSE Err("TagMismatch", <<>>)

\* The Finish arm of UsbOperation::step
FinishResult(cmd, bytes, io, T) ==
    LET csw == CommandStatus_from_bytes(bytes)
    IN IF ~csw.ok THEN UsbOperationError_from(csw)
       ELSE IF csw.status = "FAILED" THEN Err("FailedStatus", <<>>)
       ELSE IF csw.tag = cmd.tag
            THEN from_operation(T, SubSeq(io, 1, cmd.transfer_length), csw)
            ELSE Err("TagMismatch", <<>>)

(***************************************************************************)
(* Bounds and input sets of the MSC operation model                        *)
(***************************************************************************)
\* step() calls made on one operation (4 reach Finished)
MaxSteps == 5
\* sectors of a read_lba / write_lba payload
MaxLbaSectors == 1
\* seeds of the byte patterns the transport delivers in the data phase
MaxFillSeed == 1
\* largest status byte a CSW reply carries (0 Success, 1 Failed, above: invalid)
MaxStatusByte == 2

\* tags drawn by fastrand::u32(..)
Tags == {1, 287454020, 2147483647}
\* start sectors of read_lba / write_lba
StartSectors == {0, 66051}
\* residues a CSW reply carries
Residues == {0, SECTOR_SIZE, SECTOR_SIZE + 1}
\* signatures a CSW reply carries
Signatures == {USBS, USBC}

\* a recognisable payload: byte i of pattern `seed`
Pattern(seed, n) == [i \in 1..n |-> (seed * 16 + i) % 256]

\* the 13 bytes a device sends as status (CommandStatus::to_bytes, for any status byte)
CswBytes(sig, tag, residue, status) ==
    sig \o PutU32BE(tag) \o PutU32LE(residue) \o <<status>>

CswReplies ==
    { CswBytes(sig, tag, residue, status) :
        sig \in Signatures, tag \in Tags, residue \in Residues, status \in 0..MaxStatusByte }

\* UsbOperation::new / new_read / new_write
UsbOperation_new(cmd, T, io) ==
    /\ command = cmd
    /\ command_bytes = Zeros(COMMAND_BLOCK_BYTES)
    /\ op_data = io
    /\ next = "CommandBlock"
    /\ result_type = T
    /\ op_steps = <<>>

\* chip_info(), flash_id(), flash_info(), read_lba(), write_lba()
chip_info(tag) ==
    UsbOperation_new(CommandBlock_chip_info(tag), "ChipInfo", [kind |-> "Inband", bytes |-> Zeros(16)])
flash_id(tag) ==
    UsbOperation_new(CommandBlock_flash_id(tag), "FlashId", [kind |-> "Inband", bytes |-> Zeros(16)])
flash_info(tag) ==
    UsbOperation_new(CommandBlock_flash_info(tag), "FlashInfo", [kind |-> "Inband", bytes |-> Zeros(16)])
read_lba(tag, start_sector, read) ==
    /\ Len(read) % 512 = 0
    /\ UsbOperation_new(CommandBlock_read_lba(tag, start_sector, (Len(read) \div 512) % 65536),
                        "Transferred", [kind |-> "Read", bytes |-> read])
write_lba(tag, start_sector, write) ==
    /\ Len(write) % 512 = 0
    /\ UsbOperation_new(CommandBlock_write_lba(tag, start_sector, (Len(write) \div 512) % 65536),
                        "Transferred", [kind |-> "Write", bytes |-> write])

\* UsbOperation::io_data / io_data_mut
io_data == op_data.bytes

Step(kind, len, data, result) == [kind |-> kind, len |-> len, data |-> data, result |-> result]
NoResult == [ok |-> FALSE, value |-> <<>>, err |-> "none", arg |-> <<>>]

\* step(), arm Operation::CommandBlock; the transport sends the bytes
StepCommandBlock ==
    /\ Len(op_steps) < MaxSteps
    /\ next = "CommandBlock"
    /\ LET r == CommandBlock_to_bytes(command, command_bytes)
       IN /\ command_bytes' = r.bytes
          /\ next' = "IO"
          /\ op_steps' = Append(op_steps, Step("WriteBulk", r.len, SubSeq(r.bytes, 1, r.len), NoResult))
    /\ UNCHANGED <<command, op_data, result_type>>
    /\ UNCHANGED <<mrVars, ioVars, asVars, wireVars, exVars>>

\* step(), arm Operation::IO with Direction::Out; the transport sends the payload
StepIOOut ==
    /\ Len(op_steps) < MaxSteps
    /\ next = "IO"
    /\ command.flags = "Out"
    /\ command.transfer_length <= Len(io_data)
    /\ next' = "CommandStatus"
    /\ LET len == command.transfer_length
       IN op_steps' = Append(op_steps, Step("WriteBulk", len, SubSeq(io_data, 1, len), NoResult))
    /\ UNCHANGED <<command, command_bytes, op_data, result_type>>
    /\ UNCHANGED <<mrVars, ioVars, asVars, wireVars, exVars>>

\* step(), arm Operation::IO with Direction::In; the transport stores `bytes`, the
\* reply of the device, at the start of the slice it was given
StepIOIn(bytes) ==
    /\ Len(op_steps) < MaxSteps
    /\ next = "IO"
    /\ command.flags = "In"
    /\ op_data.kind # "Write"
    /\ command.transfer_length <= Len(io_data)
    /\ Len(bytes) <= command.transfer_length
    /\ next' = "CommandStatus"
    /\ LET len == command.transfer_length
       IN /\ op_data' = [op_data EXCEPT !.bytes = bytes \o SubSeq(io_data, Len(bytes) + 1, Len(io_data))]
          /\ op_steps' = Append(op_steps, Step("ReadBulk", len, bytes, NoResult))
    /\ UNCHANGED <<command, command_bytes, result_type>>
    /\ UNCHANGED <<mrVars, ioVars, asVars, wireVars, exVars>>

\* step(), arm Operation::CommandStatus; the transport stores `bytes`, the status
\* reply of the device, at the start of the scratch buffer
StepCommandStatus(bytes) ==
    /\ Len(op_steps) < MaxSteps
    /\ next = "CommandStatus"
    /\ Len(bytes) <= COMMAND_STATUS_BYTES
    /\ next' = "Finish"
    /\ command_bytes' = bytes \o SubSeq(command_bytes, Len(bytes) + 1, Len(command_bytes))
    /\ op_steps' = Append(op_steps, Step("ReadBulk", COMMAND_STATUS_BYTES, bytes, NoResult))
    /\ UNCHANGED <<command, op_data, result_type>>
    /\ UNCHANGED <<mrVars, ioVars, asVars, wireVars, exVars>>

\* step(), arm Operation::Finish. The swap at the top of step() has left
\* Operation::CommandBlock in self.next and this arm does not assign it.
StepFinish ==
    /\ Len(op_steps) < MaxSteps
    /\ next = "Finish"
    /\ next' = "CommandBlock"
    /\ op_steps' = Append(op_steps,
           Step("Finished", 0, <<>>, FinishResult(command, command_bytes, io_data, result_type)))
    /\ UNCHANGED <<command, command_bytes, op_data, result_type>>
    /\ UNCHANGED <<mrVars, ioVars, asVars, wireVars, exVars>>

\* the values of the other parts while one part runs
MrIdle ==
    /\ mr_data = <<>> /\ written = 0 /\ block = <<>> /\ area = 0
    /\ steps = [st |-> "Done", crc |-> 0] /\ fed = <<>> /\ mr_steps = <<>>
\* IoState::Idle(Some(inner)): no future in flight
IdleState ==
    [kind |-> "Idle", inner |-> "Some", len |-> 0, seed |-> 0, at0 |-> 0, expect |-> <<>>]
AsIdle == io_state = IdleState /\ polls = <<>>
\* nothing encoded or decoded yet
NotSent == [kind |-> "None", value |-> <<>>, n |-> 0]
NotParsed == [by |-> "None", r |-> <<>>]
WireIdle == sent = NotSent /\ wire_bytes = <<>> /\ parsed = NotParsed
\* handle_operation has not been called
NoDriver ==
    [transport |-> "none", operation |-> "none", status |-> "Idle", xfers |-> <<>>,
     result |-> <<>>]
DriverIdle == driver = NoDriver
\* erase_flash has not been called
NoErase ==
    [pc |-> "idle", sectors |-> 0, is_emmc |-> FALSE, is_lba |-> FALSE, max_blocks |-> 0,
     blocks_left |-> 0, first |-> 0, cmds |-> <<>>]
\* download_boot has not been called
NoWalker ==
    [pc |-> "idle", build |-> "none", headers |-> <<>>, entry |-> 0, i |-> 0,
     reads |-> <<>>, uploads |-> <<>>]
ExIdle == erase = NoErase /\ walker = NoWalker
IoIdle ==
    /\ AsIdle
    /\ offset = 0 /\ size = 0 /\ buffer = <<>> /\ state = "Invalid"
    /\ flash = <<>> /\ calls = <<>> /\ read_buf = <<>> /\ modified = {}
    /\ sector_at_write = <<>>
OpIdle ==
    /\ command = CommandBlock(0, 0, "Out", 0, 0, 0, 0) /\ command_bytes = <<>>
    /\ op_data = [kind |-> "Inband", bytes |-> <<>>] /\ next = "Finish"
    /\ result_type = "Transferred" /\ op_steps = <<>>

\* the operations a Device method hands to handle_operation
NewUsbOperation ==
    \E tag \in Tags :
         \/ chip_info(tag)
         \/ flash_id(tag)
         \/ flash_info(tag)
         \/ \E s \in StartSectors, n \in 0..MaxLbaSectors :
              read_lba(tag, s, Zeros(n * SECTOR_SIZE))
         \/ \E s \in StartSectors, n \in 0..MaxLbaSectors, seed \in 0..MaxFillSeed :
              write_lba(tag, s, Pattern(seed, n * SECTOR_SIZE))

InitOp ==
    /\ NewUsbOperation
    /\ MrIdle
    /\ IoIdle
    /\ WireIdle /\ ExIdle
    /\ DriverIdle

NextOp ==
    \/ StepCommandBlock /\ UNCHANGED trVars
    \/ StepIOOut /\ UNCHANGED trVars
    \/ \E seed \in 0..MaxFillSeed :
         StepIOIn(Pattern(seed, command.transfer_length)) /\ UNCHANGED trVars
    \/ \E bytes \in CswReplies : StepCommandStatus(bytes) /\ UNCHANGED trVars
    \/ StepFinish /\ UNCHANGED trVars

SpecOp == InitOp /\ [][NextOp]_vars

(***************************************************************************)
(* Claims about the MSC operation (checked under SpecOp)                   *)
(***************************************************************************)
\* the steps of the first run of the operation, as returned by step()
CbwStep == op_steps[1]
DataStep == op_steps[2]
StatusStep == op_steps[3]
FinishStep == op_steps[4]
\* the tag bytes the CBW carried at bytes 4..8
CbwTagBytes == SubSeq(CbwStep.data, 5, 8)
\* the status reply decodes as a CSW
CswDecodes == SubSeq(StatusStep.data, 1, 4) = USBS /\ StatusStep.data[13] \in {0, 1}

\* C1: from creation, step() yields WriteBulk of the 31-byte encoded CBW, then one data
\* step of exactly transfer_length bytes (WriteBulk for Out, ReadBulk for In), then
\* ReadBulk of exactly 13 bytes, then Finished; nothing is skipped, repeated or reordered.
C1_StepSequence ==
    /\ Len(op_steps) >= 1 =>
         /\ CbwStep.kind = "WriteBulk"
         /\ Len(CbwStep.data) = 31
         /\ SubSeq(CbwStep.data, 1, 4) = USBC
         /\ GetU32BE(CbwStep.data, 5) = command.tag
         /\ GetU32LE(CbwStep.data, 9) = command.transfer_length
         /\ CbwStep.data[13] = (IF command.flags = "In" THEN 128 ELSE 0)
         /\ CbwStep.data[16] = command.cd_code
         /\ GetU32BE(CbwStep.data, 18) = command.cd_address
         /\ CbwStep.data[23] * 256 + CbwStep.data[24] = command.cd_length
    /\ Len(op_steps) >= 2 =>
         /\ DataStep.kind = (IF command.flags = "Out" THEN "WriteBulk" ELSE "ReadBulk")
         /\ DataStep.len = command.transfer_length
         /\ command.flags = "Out" => DataStep.data = SubSeq(op_data.bytes, 1, command.transfer_length)
    /\ Len(op_steps) >= 3 =>
         /\ StatusStep.kind = "ReadBulk"
         /\ StatusStep.len = 13
    /\ Len(op_steps) >= 4 => FinishStep.kind = "Finished"
    /\ Len(op_steps) < 4 =>
         next = <<"CommandBlock", "IO", "CommandStatus", "Finish">>[Len(op_steps) + 1]

C1_Witness ==
    /\ Len(op_steps) >= 4
    /\ FinishStep.kind = "Finished"
    /\ command.flags = "Out"
    /\ command.transfer_length = 0

\* C2: an info query whose status reply is 'USBS', the tag of the CBW, any residue and
\* status 0 finishes with Ok of exactly the transfer_length bytes stored by the data
\* phase; and it finishes with Ok only for such a reply.
C2_InfoQueryResult ==
    (Len(op_steps) >= 4 /\ result_type # "Transferred") =>
        LET good == /\ SubSeq(StatusStep.data, 1, 4) = USBS
                    /\ SubSeq(StatusStep.data, 5, 8) = CbwTagBytes
                    /\ StatusStep.data[13] = 0
        IN /\ FinishStep.result.ok = good
           /\ good => /\ FinishStep.result.value = DataStep.data
                      /\ Len(FinishStep.result.value) = command.transfer_length

C2_Witness ==
    /\ Len(op_steps) >= 4
    /\ result_type = "ChipInfo"
    /\ FinishStep.result.ok
    /\ FinishStep.result.value = Pattern(1, 16)
    /\ GetU32LE(StatusStep.data, 9) # 0

\* C3 (as stated): a status reply that decodes as a CSW whose tag differs from the tag
\* of the CBW finishes with Err(TagMismatch), whatever its status and residue.
C3_TagMismatchWhateverStatus ==
    (Len(op_steps) >= 4 /\ CswDecodes /\ SubSeq(StatusStep.data, 5, 8) # CbwTagBytes) =>
        FinishStep.result = Err("TagMismatch", <<>>)

\* C4: a status reply that decodes as a CSW with status Failed and the tag of the CBW
\* finishes with Err(FailedStatus), never with Ok, whatever the residue and the data.
C4_FailedStatus ==
    (/\ Len(op_steps) >= 4
     /\ SubSeq(StatusStep.data, 1, 4) = USBS
     /\ StatusStep.data[13] = 1
     /\ SubSeq(StatusStep.data, 5, 8) = CbwTagBytes) =>
        FinishStep.result = Err("FailedStatus", <<>>)

C4_Witness ==
    /\ Len(op_steps) >= 4
    /\ SubSeq(StatusStep.data, 1, 4) = USBS
    /\ StatusStep.data[13] = 1
    /\ SubSeq(StatusStep.data, 5, 8) = CbwTagBytes
    /\ result_type = "Transferred"
    /\ command.transfer_length = SECTOR_SIZE
    /\ GetU32LE(StatusStep.data, 9) = 0

\* C15: a status reply whose first four bytes are not 'USBS' finishes with
\* Err(InvalidStatusSignature(those bytes)); otherwise a status byte other than 0 and 1
\* finishes with Err(InvalidStatusStatus(that byte)); neither returns Ok.
C15_CswDecodeErrors ==
    Len(op_steps) >= 4 =>
        IF SubSeq(StatusStep.data, 1, 4) # USBS
        THEN FinishStep.result = Err("InvalidStatusSignature", SubSeq(StatusStep.data, 1, 4))
        ELSE StatusStep.data[13] \notin {0, 1} =>
                 FinishStep.result = Err("InvalidStatusStatus", StatusStep.data[13])

\* both decode failures at once, on an operation with a data phase
C15_Witness ==
    /\ Len(op_steps) >= 4
    /\ SubSeq(StatusStep.data, 1, 4) = USBC
    /\ StatusStep.data[13] = 2
    /\ command.transfer_length > 0
    /\ FinishStep.result.err = "InvalidStatusSignature"

\* the status reply is 'USBS', the tag of the CBW, status 0
ValidCsw ==
    /\ SubSeq(StatusStep.data, 1, 4) = USBS
    /\ SubSeq(StatusStep.data, 5, 8) = CbwTagBytes
    /\ StatusStep.data[13] = 0
\* the residue the status reply carries
CswResidue == GetU32LE(StatusStep.data, 9)

\* C16: read_lba and write_lba with a valid CSW finish with Ok(transfer_length - residue)
\* if residue <= transfer_length, and with Err(ReplyParseFailure) if it is larger.
C16_Transferred ==
    (Len(op_steps) >= 4 /\ result_type = "Transferred" /\ ValidCsw) =>
        IF CswResidue <= command.transfer_length
        THEN /\ FinishStep.result = Ok(command.transfer_length - CswResidue)
             /\ FinishStep.result.value >= 0
        ELSE FinishStep.result = Err("ReplyParseFailure", <<>>)

\* a read_lba of one sector whose residue equals the transfer length
C16_Witness ==
    /\ Len(op_steps) >= 4 /\ result_type = "Transferred" /\ ValidCsw
    /\ command.flags = "In"
    /\ command.transfer_length = SECTOR_SIZE
    /\ CswResidue = SECTOR_SIZE
    /\ FinishStep.result = Ok(0)

\* C17: once step() has returned Finished, every further step() returns Finished again
\* and no other WriteBulk or ReadBulk step is emitted.
C17_FinishTerminal ==
    \A k \in 2..Len(op_steps) :
        op_steps[k - 1].kind = "Finished" => op_steps[k].kind = "Finished"

(***************************************************************************)
(* operation.rs: MaskRomOperation                                          *)
(***************************************************************************)
\* crc::CRC_16_IBM_3740: width 16, poly 0x1021, init 0xffff, no reflection, xorout 0
CrcPoly == 4129
CrcInit == 65535

\* the low n bits of a xor b
RECURSIVE XorBits(_, _, _)
XorBits(a, b, n) ==
    IF n = 0 THEN 0 ELSE ((a + b) % 2) + 2 * XorBits(a \div 2, b \div 2, n - 1)

\* a xor b for bytes, tabulated (entry [a + 1][b + 1])
Xor8Table ==
    SubSeq([a \in 1..256 |-> SubSeq([b \in 1..256 |-> XorBits(a - 1, b - 1, 8)], 1, 256)], 1, 256)
Xor8(a, b) == Xor8Table[a + 1][b + 1]

\* one shift of the register: the top bit leaves and selects the xor with the polynomial
CrcShift(c) ==
    IF c >= 32768 THEN XorBits((c * 2) % 65536, CrcPoly, 16) ELSE c * 2

\* the crc crate's lookup table: entry i + 1 is the register after byte i entered a zero register
CrcTable ==
    SubSeq([i \in 1..256 |->
              CrcShift(CrcShift(CrcShift(CrcShift(CrcShift(CrcShift(CrcShift(CrcShift((i - 1) * 256))))))))],
           1, 256)

\* the register after one more input byte: (crc << 8) ^ table[(crc >> 8) ^ byte]
CrcByte(c, b) ==
    LET t == CrcTable[Xor8(c \div 256, b) + 1]
    IN Xor8(c % 256, t \div 256) * 256 + (t % 256)

\* Digest::update over bytes lo..hi of s (1-based, inclusive), by halves; the register
\* is 16 bits wide (the first test also makes the evaluation of c strict)
RECURSIVE CrcUpdate(_, _, _, _)
CrcUpdate(c, s, lo, hi) ==
    IF c > 65535 \/ hi < lo THEN c
    ELSE IF hi = lo THEN CrcByte(c, s[lo])
    ELSE LET mid == (lo + hi) \div 2
         IN CrcUpdate(CrcUpdate(c, s, lo, mid), s, mid + 1, hi)

\* CRC.digest() ... finalize() of a whole byte sequence
Crc16(s) == CrcUpdate(CrcInit, s, 1, Len(s))

\* the block size of the upload
BLOCK == 4096

\* blocks of 4096 bytes in a blob, before its tail
MaxBlocks == 2
\* blob lengths are taken within MaxTail bytes of a multiple of the block size
MaxTail == 2
\* seeds of the blob contents
MaxBlobSeed == 0
\* Finished results recorded after the upload is done
MaxFinished == 1

\* blob lengths: near every block boundary, and the 100 bytes of a short blob
BlobLens ==
    { n \in 0..(MaxBlocks * BLOCK + MaxTail) :
        n % BLOCK <= MaxTail \/ n % BLOCK >= BLOCK - MaxTail - 1 } \cup {100}

\* a blob whose blocks differ from each other and from zero
Blob(seed, n) == [i \in 1..n |-> ((seed * 101 + i * 7 + (i \div 251)) % 255) + 1]

\* typical areas: 0x471 (SRAM), 0x472 (DDR)
Areas == {1137, 1138}

\* s with s[p] := v
SetByte(s, p, v) == [s EXCEPT ![p] = v]

\* UsbStep::WriteControl { request_type: 0x40, request: 0xc, value: 0, index, data }
WriteControl(index, data) ==
    [kind |-> "WriteControl", request_type |-> 64, request |-> 12, value |-> 0,
     index |-> index, data |-> data, result |-> NoResult]

\* UsbStep::Finished(Ok(()))
FinishedUnit ==
    [kind |-> "Finished", request_type |-> 0, request |-> 0, value |-> 0,
     index |-> 0, data |-> <<>>, result |-> Ok(<<>>)]

Writing(crc) == [st |-> "Writing", crc |-> crc]
Dummy == [st |-> "Dummy", crc |-> 0]
Done == [st |-> "Done", crc |-> 0]

\* MaskRomOperation::new / write_area(area, data)
write_area(a, d) ==
    /\ written = 0
    /\ block = Zeros(BLOCK)
    /\ mr_data = d
    /\ area = a
    /\ steps = Writing(CrcInit)
    /\ fed = <<>>
    /\ mr_steps = <<>>

\* the Writing arm with the digest of the last chunk fed the whole block
WritingArm_CrcWholeBlock(crc, data, wr, blk) ==
    LET chunksize == Min(BLOCK, Len(data) - wr)
        copied == SubSeq(data, wr + 1, wr + chunksize) \o SubSeq(blk, chunksize + 1, BLOCK)
    IN CASE chunksize = 4096 ->
              [block |-> copied, written |-> wr + chunksize,
               steps |-> Writing(CrcUpdate(crc, copied, 1, BLOCK)),
               fed |-> copied, chunk |-> copied]
         [] chunksize = 4095 ->
              LET padded == SetByte(copied, 4096, 0)
              IN [block |-> padded, written |-> wr + chunksize,
                  steps |-> Writing(CrcUpdate(crc, padded, 1, BLOCK)),
                  fed |-> padded, chunk |-> padded]
         [] OTHER ->
              LET end == chunksize
                  sum == CrcUpdate(crc, copied, 1, BLOCK)
                  withcrc == SetByte(SetByte(copied, end + 1, sum \div 256), end + 2, sum % 256)
              IN [block |-> withcrc, written |-> wr + chunksize,
                  steps |-> IF end + 2 = 4096 THEN Dummy ELSE Done,
                  fed |-> copied, chunk |-> SubSeq(withcrc, 1, end + 2)]

\* the Writing arm that never goes to Dummy
WritingArm_NoDummy(crc, data, wr, blk) ==
    LET chunksize == Min(BLOCK, Len(data) - wr)
        copied == SubSeq(data, wr + 1, wr + chunksize) \o SubSeq(blk, chunksize + 1, BLOCK)
    IN CASE chunksize = 4096 ->
              [block |-> copied, written |-> wr + chunksize,
               steps |-> Writing(CrcUpdate(crc, copied, 1, BLOCK)),
               fed |-> copied, chunk |-> copied]
         [] chunksize = 4095 ->
              LET padded == SetByte(copied, 4096, 0)
              IN [block |-> padded, written |-> wr + chunksize,
                  steps |-> Writing(CrcUpdate(crc, padded, 1, BLOCK)),
                  fed |-> padded, chunk |-> padded]
         [] OTHER ->
              LET end == chunksize
                  sum == CrcUpdate(crc, copied, 1, end)
                  withcrc == SetByte(SetByte(copied, end + 1, sum \div 256), end + 2, sum % 256)
              IN [block |-> withcrc, written |-> wr + chunksize,
                  steps |-> Done,
                  fed |-> SubSeq(copied, 1, end), chunk |-> SubSeq(withcrc, 1, end + 2)]

\* the Writing arm without the arm for 4095 bytes: the block ends with the high CRC byte
WritingArm_NoPad(crc, data, wr, blk) ==
    LET chunksize == Min(BLOCK, Len(data) - wr)
        copied == SubSeq(data, wr + 1, wr + chunksize) \o SubSeq(blk, chunksize + 1, BLOCK)
    IN CASE chunksize = 4096 ->
              [block |-> copied, written |-> wr + chunksize,
               steps |-> Writing(CrcUpdate(crc, copied, 1, BLOCK)),
               fed |-> copied, chunk |-> copied]
         [] chunksize = 4095 ->
              LET sum == CrcUpdate(crc, copied, 1, 4095)
                  withhigh == SetByte(copied, 4096, sum \div 256)
              IN [block |-> withhigh, written |-> wr + chunksize,
                  steps |-> Done,
                  fed |-> SubSeq(copied, 1, 4095), chunk |-> withhigh]
         [] OTHER ->
              LET end == chunksize
                  sum == CrcUpdate(crc, copied, 1, end)
                  withcrc == SetByte(SetByte(copied, end + 1, sum \div 256), end + 2, sum % 256)
              IN [block |-> withcrc, written |-> wr + chunksize,
                  steps |-> IF end + 2 = 4096 THEN Dummy ELSE Done,
                  fed |-> SubSeq(copied, 1, end), chunk |-> SubSeq(withcrc, 1, end + 2)]

\* the Writing arm as it would be if a full block did not advance the write cursor
WritingArm_NoAdvance(crc, data, wr, blk) ==
    LET chunksize == Min(BLOCK, Len(data) - wr)
        copied == SubSeq(data, wr + 1, wr + chunksize) \o SubSeq(blk, chunksize + 1, BLOCK)
    IN CASE chunksize = 4096 ->
              [block |-> copied, written |-> wr,
               steps |-> Writing(CrcUpdate(crc, copied, 1, BLOCK)),
               fed |-> copied, chunk |-> copied]
         [] chunksize = 4095 ->
              LET padded == SetByte(copied, 4096, 0)
              IN [block |-> padded, written |-> wr + chunksize,
                  steps |-> Writing(CrcUpdate(crc, padded, 1, BLOCK)),
                  fed |-> padded, chunk |-> padded]
         [] OTHER ->
              LET end == chunksize
                  sum == CrcUpdate(crc, copied, 1, end)
                  withcrc == SetByte(SetByte(copied, end + 1, sum \div 256), end + 2, sum % 256)
              IN [block |-> withcrc, written |-> wr + chunksize,
                  steps |-> IF end + 2 = 4096 THEN Dummy ELSE Done,
                  fed |-> SubSeq(copied, 1, end), chunk |-> SubSeq(withcrc, 1, end + 2)]

\* the Writing arm of MaskRomOperation::step: what it leaves in self and what it returns
WritingArm(crc, data, wr, blk) ==
    LET chunksize == Min(BLOCK, Len(data) - wr)
        copied == SubSeq(data, wr + 1, wr + chunksize) \o SubSeq(blk, chunksize + 1, BLOCK)
    IN CASE chunksize = 4096 ->
              [block |-> copied, written |-> wr + chunksize,
               steps |-> Writing(CrcUpdate(crc, copied, 1, BLOCK)),
               fed |-> copied, chunk |-> copied]
         [] chunksize = 4095 ->
              \* Add extra 0 to avoid splitting crc over two blocks
              LET padded == SetByte(copied, 4096, 0)
              IN [block |-> padded, written |-> wr + chunksize,
                  steps |-> Writing(CrcUpdate(crc, padded, 1, BLOCK)),
                  fed |-> padded, chunk |-> padded]
         [] OTHER ->
              LET end == chunksize
                  sum == CrcUpdate(crc, copied, 1, end)
                  withcrc == SetByte(SetByte(copied, end + 1, sum \div 256), end + 2, sum % 256)
              IN [block |-> withcrc, written |-> wr + chunksize,
                  steps |-> IF end + 2 = 4096 THEN Dummy ELSE Done,
                  fed |-> SubSeq(copied, 1, end), chunk |-> SubSeq(withcrc, 1, end + 2)]

\* step(), arm MaskRomSteps::Writing
StepWriting ==
    /\ steps.st = "Writing"
    /\ LET r == WritingArm(steps.crc, mr_data, written, block)
       IN /\ block' = r.block
          /\ written' = r.written
          /\ steps' = r.steps
          /\ fed' = fed \o r.fed
          /\ mr_steps' = Append(mr_steps, WriteControl(area, r.chunk))
    /\ UNCHANGED <<mr_data, area>>
    /\ UNCHANGED <<opVars, ioVars, asVars, wireVars, exVars>>

\* step(), arm MaskRomSteps::Dummy
StepDummy ==
    /\ steps.st = "Dummy"
    /\ steps' = Done
    /\ block' = SetByte(block, 1, 0)
    /\ mr_steps' = Append(mr_steps, WriteControl(area, SubSeq(block', 1, 1)))
    /\ UNCHANGED <<mr_data, written, area, fed>>
    /\ UNCHANGED <<opVars, ioVars, asVars, wireVars, exVars>>

\* the Finished results at the end of the steps returned so far
FinishedCount == Cardinality({i \in 1..Len(mr_steps) : mr_steps[i].kind = "Finished"})

\* step(), arm MaskRomSteps::Done (the swap at the top of step() leaves Done in self.steps)
StepDone ==
    /\ steps.st = "Done"
    /\ FinishedCount < MaxFinished
    /\ steps' = Done
    /\ mr_steps' = Append(mr_steps, FinishedUnit)
    /\ UNCHANGED <<mr_data, written, block, area, fed>>
    /\ UNCHANGED <<opVars, ioVars, asVars, wireVars, exVars>>

InitMaskRom ==
    /\ \E a \in Areas, n \in BlobLens, seed \in 0..MaxBlobSeed : write_area(a, Blob(seed, n))
    /\ OpIdle
    /\ IoIdle
    /\ WireIdle /\ ExIdle
    /\ DriverIdle

NextMaskRom ==
    \/ StepWriting /\ UNCHANGED trVars
    \/ StepDummy /\ UNCHANGED trVars
    \/ StepDone /\ UNCHANGED trVars

SpecMaskRom == InitMaskRom /\ [][NextMaskRom]_vars

(***************************************************************************)
(* Claims about the MaskRom engine (checked under SpecMaskRom)             *)
(***************************************************************************)
\* the WriteControl steps emitted so far
ControlSteps == SelectSeq(mr_steps, LAMBDA st : st.kind = "WriteControl")

RECURSIVE ConcatData(_, _)
ConcatData(ctl, n) == IF n = 0 THEN <<>> ELSE ConcatData(ctl, n - 1) \o ctl[n].data

\* the data of the WriteControl steps, concatenated in emission order
EmittedData == ConcatData(ControlSteps, Len(ControlSteps))

\* the index of the WriteControl step that holds byte p of the concatenation
\* (Len(ctl) + 1 when the concatenation is shorter)
RECURSIVE ChunkAt(_, _, _)
ChunkAt(ctl, k, p) ==
    IF k > Len(ctl) THEN k
    ELSE IF p <= Len(ctl[k].data) THEN k
    ELSE ChunkAt(ctl, k + 1, p - Len(ctl[k].data))

\* the engine has emitted every WriteControl step
UploadDone == steps.st = "Done"

BlobLen == Len(mr_data)
\* the blob with the 0x00 that precedes the CRC when N mod 4096 = 4095
PaddedBlob == IF BlobLen % 4096 = 4095 THEN mr_data \o <<0>> ELSE mr_data
\* the CRC-16/IBM-3740 digest of the blob (with the 0x00), high byte first
ExpectedCrc == LET sum == Crc16(PaddedBlob) IN << sum \div 256, sum % 256 >>
\* the length of the chunk that holds byte p of the concatenation (0 when none does)
ChunkLenAt(p) ==
    LET k == ChunkAt(ControlSteps, 1, p)
    IN IF k > Len(ControlSteps) THEN 0 ELSE Len(ControlSteps[k].data)

\* C5 (as stated): the concatenated WriteControl data equal the blob, the 2 CRC bytes and
\* a single 0x00 exactly when the chunk that carries the CRC is 4096 bytes long.
C5_StreamIsBlobCrcDummy ==
    UploadDone =>
        EmittedData = mr_data \o ExpectedCrc
                      \o (IF ChunkLenAt(BlobLen + 2) = 4096 THEN <<0>> ELSE <<>>)

\* C5 (amended): the concatenated WriteControl data equal the blob, then one 0x00 exactly
\* when N mod 4096 = 4095, then the 2 CRC bytes, then a single 0x00 exactly when the
\* chunk that carries the CRC is 4096 bytes long.
C5_StreamIsBlobPadCrcDummy ==
    UploadDone =>
        EmittedData = PaddedBlob \o ExpectedCrc
                      \o (IF ChunkLenAt(Len(PaddedBlob) + 2) = 4096 THEN <<0>> ELSE <<>>)

C5_Witness ==
    /\ UploadDone
    /\ BlobLen = 4095
    /\ Len(EmittedData) = 4098
    /\ EmittedData[4096] = 0

\* C6: the two CRC bytes are the CRC-16/IBM-3740 digest, high byte first, of the blob
\* followed by one 0x00 iff N mod 4096 = 4095; nothing else is ever fed to the digest.
C6_CrcOfBlob ==
    /\ Len(fed) <= Len(PaddedBlob)
    /\ fed = SubSeq(PaddedBlob, 1, Len(fed))
    /\ UploadDone =>
         /\ fed = PaddedBlob
         /\ Len(EmittedData) >= Len(PaddedBlob) + 2
         /\ SubSeq(EmittedData, Len(PaddedBlob) + 1, Len(PaddedBlob) + 2) = ExpectedCrc

C6_Witness ==
    /\ UploadDone
    /\ BlobLen = BLOCK + 4095
    /\ Len(fed) = 2 * BLOCK
    /\ fed[2 * BLOCK] = 0

\* a one-byte WriteControl step: the Dummy step (the chunk with the CRC has 2 bytes or more)
DummySteps == {i \in 1..Len(ControlSteps) : Len(ControlSteps[i].data) = 1}

\* C7: the one-byte 0x00 WriteControl is emitted, as the last transport step before
\* Finished, iff the chunk that carries the CRC is exactly 4096 bytes long, that is iff
\* N mod 4096 = 4094.
C7_DummyIff4094 ==
    /\ (steps.st = "Dummy") => (BlobLen % 4096 = 4094 /\ DummySteps = {})
    /\ (steps.st = "Writing") => DummySteps = {}
    /\ UploadDone =>
         /\ (DummySteps # {}) = (BlobLen % 4096 = 4094)
         /\ (ChunkLenAt(Len(PaddedBlob) + 2) = 4096) = (BlobLen % 4096 = 4094)
         /\ DummySteps # {} =>
              /\ DummySteps = {Len(ControlSteps)}
              /\ ControlSteps[Len(ControlSteps)].data = <<0>>
              /\ Len(ControlSteps) >= 2
              /\ Len(ControlSteps[Len(ControlSteps) - 1].data) = 4096
              /\ \A i \in 1..Len(mr_steps) :
                    mr_steps[i].kind = "Finished" => i > Len(ControlSteps)

C7_Witness ==
    /\ UploadDone
    /\ BlobLen = BLOCK + 4094
    /\ Len(ControlSteps) = 3
    /\ ControlSteps[3].data = <<0>>
    /\ mr_steps[Len(mr_steps)].kind = "Finished"

\* C8: both CRC bytes are carried by one WriteControl step; for N mod 4096 = 4095 the
\* last 4095 blob bytes go out as a 4096-byte chunk ending in 0x00 without the CRC,
\* followed by a 2-byte chunk that holds only the CRC.
C8_CrcNotSplit ==
    UploadDone =>
        LET ctl == ControlSteps
            hi == ChunkAt(ctl, 1, Len(PaddedBlob) + 1)
            lo == ChunkAt(ctl, 1, Len(PaddedBlob) + 2)
        IN /\ hi = lo
           /\ lo <= Len(ctl)
           /\ BlobLen % 4096 = 4095 =>
                /\ Len(ctl) >= 2
                /\ ctl[Len(ctl)].data = ExpectedCrc
                /\ ctl[Len(ctl) - 1].data = SubSeq(mr_data, BlobLen - 4094, BlobLen) \o <<0>>

C8_Witness ==
    /\ UploadDone
    /\ BlobLen = 4095
    /\ Len(ControlSteps) = 2
    /\ Len(ControlSteps[2].data) = 2
    /\ Len(ControlSteps[1].data) = 4096

\* the WriteControl steps an upload of the blob takes
ExpectedControlSteps == (BlobLen \div BLOCK) + (IF BlobLen % BLOCK <= 4093 THEN 1 ELSE 2)

\* no step reports an error, the cursor stays within the blob, the WriteControl steps
\* are never more than expected, Finished comes after exactly that many, and the engine
\* is Done, so that the next step() returns Finished, exactly when that many were emitted
MaskRomBoundedProgress ==
    /\ written <= BlobLen
    /\ steps.st \in {"Writing", "Dummy", "Done"}
    /\ steps.st = "Done" <=> Len(ControlSteps) = ExpectedControlSteps
    /\ Len(ControlSteps) <= ExpectedControlSteps
    /\ \A i \in 1..Len(mr_steps) :
          IF i <= ExpectedControlSteps
          THEN mr_steps[i].kind = "WriteControl"
          ELSE mr_steps[i] = FinishedUnit

\* C18: for every blob length N, repeated step() calls emit floor(N/4096)+1 WriteControl
\* steps when N mod 4096 <= 4093 and floor(N/4096)+2 otherwise, then return
\* Finished(Ok(())); no step reports an error and the write cursor never exceeds N.
C18_MaskRomTerminates == MaskRomBoundedProgress

\* an upload of one block and 4095 bytes has finished after 3 WriteControl steps
C18_Witness ==
    /\ BlobLen = BLOCK + 4095
    /\ Len(ControlSteps) = 3
    /\ Len(mr_steps) = 4 /\ mr_steps[4] = FinishedUnit

\* C30: every WriteControl step has request_type 0x40, request 0x0c, value 0 and the
\* requested area as index and carries 1 to 4096 bytes; every one but the last carries
\* exactly 4096 bytes and the last carries fewer than 4096.
C30_MaskRomFraming ==
    /\ \A i \in 1..Len(ControlSteps) :
          /\ ControlSteps[i].request_type = 64
          /\ ControlSteps[i].request = 12
          /\ ControlSteps[i].value = 0
          /\ ControlSteps[i].index = area
          /\ Len(ControlSteps[i].data) \in 1..4096
          /\ i < Len(ControlSteps) => Len(ControlSteps[i].data) = 4096
    /\ UploadDone =>
          /\ Len(ControlSteps) >= 1
          /\ Len(ControlSteps[Len(ControlSteps)].data) < 4096

\* a blob of 4096 + 4094 bytes was uploaded: two full chunks, then the single byte
C30_Witness ==
    /\ UploadDone /\ BlobLen = BLOCK + 4094
    /\ Len(ControlSteps) = 3
    /\ Len(ControlSteps[2].data) = 4096
    /\ Len(ControlSteps[3].data) = 1

(***************************************************************************)
(* device.rs / libusb.rs: the block adapter (DeviceIOInner, TransportIO)   *)
(***************************************************************************)
\* MAXIO_SIZE = 128 * SECTOR_SIZE
MAXIO_SIZE == 65536

\* sectors of the flash (FlashInfo::sectors)
DevSectors == 2
\* read, write, flush and seek calls made on one adapter
MaxCalls == 4

\* the inner state a call works on, with the device commands the call has issued
Inner == [offset |-> offset, size |-> size, buffer |-> buffer, state |-> state,
          flash |-> flash, cmds |-> <<>>]

\* current_sector()
current_sector(st) == st.offset \div SECTOR_SIZE

\* the command a call issues next fails: it is the command number `fail` of the call,
\* or it addresses sectors the flash does not have
CommandFails(st, sector, nbytes, fail) ==
    \/ Len(st.cmds) + 1 = fail
    \/ sector + (nbytes \div SECTOR_SIZE) > Len(st.flash)

\* nbytes of the flash from the start of `sector`
FlashRead(fl, sector, nbytes) ==
    [i \in 1..nbytes |-> fl[sector + 1 + ((i - 1) \div SECTOR_SIZE)][((i - 1) % SECTOR_SIZE) + 1]]

\* the flash after `data` went to the sectors from `sector` on
FlashWrite(fl, sector, data) ==
    [k \in 1..Len(fl) |->
        IF k - 1 >= sector /\ k - 1 < sector + (Len(data) \div SECTOR_SIZE)
        THEN SubSeq(data, (k - 1 - sector) * SECTOR_SIZE + 1, (k - sector) * SECTOR_SIZE)
        ELSE fl[k]]

\* the command number -fail of a call is answered with a CSW whose residue is one sector
CommandShort(st, fail) == Len(st.cmds) + 1 = -fail

\* impl FromOperation for Transferred: the bytes the device reports as transferred,
\* transfer_length - residue
Transferred_from_operation(nbytes, residue) == nbytes - residue

\* one read_lba / write_lba command: its arguments, its outcome, and the count
\* Device::read_lba / write_lba returns for it
Cmd(name, sector, nbytes, ok) ==
    [cmd |-> name, sector |-> sector, len |-> nbytes, ok |-> ok,
     moved |-> IF ok THEN Transferred_from_operation(nbytes, 0) ELSE 0]
CmdShort(name, sector, nbytes) ==
    [Cmd(name, sector, nbytes, TRUE) EXCEPT
        !.moved = Transferred_from_operation(nbytes, SECTOR_SIZE)]

\* Device::read_lba(sector, buf) as the adapter uses it: [st, err, data], data being
\* the bytes that reached buf
DeviceReadLba(st, sector, nbytes, fail) ==
    IF CommandFails(st, sector, nbytes, fail)
    THEN [st |-> [st EXCEPT !.cmds = Append(@, Cmd("read_lba", sector, nbytes, FALSE))],
          err |-> TRUE, data |-> <<>>]
    ELSE IF CommandShort(st, fail)
    THEN [st |-> [st EXCEPT !.cmds = Append(@, CmdShort("read_lba", sector, nbytes))],
          err |-> FALSE, data |-> FlashRead(st.flash, sector, nbytes - SECTOR_SIZE)]
    ELSE [st |-> [st EXCEPT !.cmds = Append(@, Cmd("read_lba", sector, nbytes, TRUE))],
          err |-> FALSE, data |-> FlashRead(st.flash, sector, nbytes)]

\* Device::write_lba(sector, buf) as the adapter uses it: [st, err]
DeviceWriteLba(st, sector, data, fail) ==
    IF CommandFails(st, sector, Len(data), fail)
    THEN [st |-> [st EXCEPT !.cmds = Append(@, Cmd("write_lba", sector, Len(data), FALSE))],
          err |-> TRUE]
    ELSE IF CommandShort(st, fail)
    THEN [st |-> [st EXCEPT !.cmds = Append(@, CmdShort("write_lba", sector, Len(data))),
                            !.flash = FlashWrite(@, sector,
                                                 SubSeq(data, 1, Len(data) - SECTOR_SIZE))],
          err |-> FALSE]
    ELSE [st |-> [st EXCEPT !.cmds = Append(@, Cmd("write_lba", sector, Len(data), TRUE)),
                            !.flash = FlashWrite(@, sector, data)],
          err |-> FALSE]

Eof == [kind |-> "Eof", offset |-> 0, len |-> 0]
Direct(len) == [kind |-> "Direct", offset |-> 0, len |-> len]
Buffered(off, len) == [kind |-> "Buffered", offset |-> off, len |-> len]

\* pre_io as it would be without the test for the end of the device
pre_io_NoEof(st, len, fail) ==
    LET sector_offset == st.offset % SECTOR_SIZE
        sector_remaining == SECTOR_SIZE - sector_offset
    IN IF sector_offset = 0 /\ len >= SECTOR_SIZE
       THEN LET left == st.size - st.offset
                io_len == (Min(len, left) \div SECTOR_SIZE) * SECTOR_SIZE
            IN [st |-> st, err |-> FALSE, ek |-> "", io |-> Direct(Min(io_len, MAXIO_SIZE))]
       ELSE IF st.state = "Invalid"
            THEN LET r == DeviceReadLba(st, current_sector(st), SECTOR_SIZE, fail)
                 IN IF r.err
                    THEN [st |-> r.st, err |-> TRUE, ek |-> "BrokenPipe", io |-> Eof]
                    ELSE [st |-> [r.st EXCEPT !.buffer = r.data, !.state = "Valid"],
                          err |-> FALSE, ek |-> "",
                          io |-> Buffered(sector_offset, Min(len, sector_remaining))]
            ELSE [st |-> st, err |-> FALSE, ek |-> "",
                  io |-> Buffered(sector_offset, Min(len, sector_remaining))]

\* pre_io as it would be without the limit of MAXIO_SIZE on a direct transfer
pre_io_NoCap(st, len, fail) ==
    IF st.offset >= st.size THEN [st |-> st, err |-> FALSE, ek |-> "", io |-> Eof]
    ELSE
      LET sector_offset == st.offset % SECTOR_SIZE
          sector_remaining == SECTOR_SIZE - sector_offset
      IN IF sector_offset = 0 /\ len >= SECTOR_SIZE
         THEN LET left == st.size - st.offset
                  io_len == (Min(len, left) \div SECTOR_SIZE) * SECTOR_SIZE
              IN [st |-> st, err |-> FALSE, ek |-> "", io |-> Direct(io_len)]
         ELSE IF st.state = "Invalid"
              THEN LET r == DeviceReadLba(st, current_sector(st), SECTOR_SIZE, fail)
                   IN IF r.err
                      THEN [st |-> r.st, err |-> TRUE, ek |-> "BrokenPipe", io |-> Eof]
                      ELSE [st |-> [r.st EXCEPT !.buffer = r.data, !.state = "Valid"],
                            err |-> FALSE, ek |-> "",
                            io |-> Buffered(sector_offset, Min(len, sector_remaining))]
              ELSE [st |-> st, err |-> FALSE, ek |-> "",
                    io |-> Buffered(sector_offset, Min(len, sector_remaining))]

\* pre_io as it would be if the buffered path loaded the sector whatever the state
pre_io_AlwaysLoad(st, len, fail) ==
    IF st.offset >= st.size THEN [st |-> st, err |-> FALSE, ek |-> "", io |-> Eof]
    ELSE
      LET sector_offset == st.offset % SECTOR_SIZE
          sector_remaining == SECTOR_SIZE - sector_offset
      IN IF sector_offset = 0 /\ len >= SECTOR_SIZE
         THEN LET left == st.size - st.offset
                  io_len == (Min(len, left) \div SECTOR_SIZE) * SECTOR_SIZE
              IN [st |-> st, err |-> FALSE, ek |-> "", io |-> Direct(Min(io_len, MAXIO_SIZE))]
         ELSE LET r == DeviceReadLba(st, current_sector(st), SECTOR_SIZE, fail)
              IN IF r.err
                 THEN [st |-> r.st, err |-> TRUE, ek |-> "BrokenPipe", io |-> Eof]
                 ELSE [st |-> [r.st EXCEPT !.buffer = r.data, !.state = "Valid"],
                       err |-> FALSE, ek |-> "",
                       io |-> Buffered(sector_offset, Min(len, sector_remaining))]

\* pre_io(len): [st, err, io]
pre_io(st, len, fail) ==
    IF st.offset >= st.size THEN [st |-> st, err |-> FALSE, ek |-> "", io |-> Eof]
    ELSE
      LET sector_offset == st.offset % SECTOR_SIZE
          sector_remaining == SECTOR_SIZE - sector_offset
      IN IF sector_offset = 0 /\ len >= SECTOR_SIZE
         THEN LET left == st.size - st.offset
                  io_len == (Min(len, left) \div SECTOR_SIZE) * SECTOR_SIZE
              IN [st |-> st, err |-> FALSE, ek |-> "", io |-> Direct(Min(io_len, MAXIO_SIZE))]
         ELSE IF st.state = "Invalid"
              THEN LET r == DeviceReadLba(st, current_sector(st), SECTOR_SIZE, fail)
                   IN IF r.err
                      THEN [st |-> r.st, err |-> TRUE, ek |-> "BrokenPipe", io |-> Eof]
                      ELSE [st |-> [r.st EXCEPT
                                      !.buffer = r.data \o SubSeq(@, Len(r.data) + 1, SECTOR_SIZE),
                                      !.state = "Valid"],
                            err |-> FALSE, ek |-> "",
                            io |-> Buffered(sector_offset, Min(len, sector_remaining))]
              ELSE [st |-> st, err |-> FALSE, ek |-> "",
                    io |-> Buffered(sector_offset, Min(len, sector_remaining))]

\* flush_buffer as it would be if the state were set before the result of write_lba is
\* looked at
flush_buffer_ValidOnError(st, fail) ==
    IF st.state = "Dirty"
    THEN LET r == DeviceWriteLba(st, current_sector(st), st.buffer, fail)
         IN [st |-> [r.st EXCEPT !.state = "Valid"], err |-> r.err,
             ek |-> IF r.err THEN "BrokenPipe" ELSE ""]
    ELSE [st |-> st, err |-> FALSE, ek |-> ""]

\* flush_buffer as it would be if a successful write_lba left the state Dirty
flush_buffer_StaysDirty(st, fail) ==
    IF st.state = "Dirty"
    THEN LET r == DeviceWriteLba(st, current_sector(st), st.buffer, fail)
         IN [st |-> r.st, err |-> r.err, ek |-> IF r.err THEN "BrokenPipe" ELSE ""]
    ELSE [st |-> st, err |-> FALSE, ek |-> ""]

\* flush_buffer(): [st, err]
flush_buffer(st, fail) ==
    IF st.state = "Dirty"
    THEN LET r == DeviceWriteLba(st, current_sector(st), st.buffer, fail)
         IN IF r.err
            THEN [st |-> r.st, err |-> TRUE, ek |-> "BrokenPipe"]
            ELSE [st |-> [r.st EXCEPT !.state = "Valid"], err |-> FALSE, ek |-> ""]
    ELSE [st |-> st, err |-> FALSE, ek |-> ""]

\* post_io as it would be if reaching the sector end invalidated the buffer without writing it back
post_io_NoFlush(st, len, fail) ==
    LET sector_offset == st.offset % SECTOR_SIZE
        sector_remaining == SECTOR_SIZE - sector_offset
    IN IF len >= sector_remaining
       THEN [st |-> [st EXCEPT !.state = "Invalid", !.offset = @ + len], err |-> FALSE, ek |-> "", n |-> len]
       ELSE [st |-> [st EXCEPT !.offset = @ + len], err |-> FALSE, ek |-> "", n |-> len]

\* post_io as it would be if it left the offset where the call began inside a sector
post_io_NoAdvance(st, len, fail) ==
    LET sector_offset == st.offset % SECTOR_SIZE
        sector_remaining == SECTOR_SIZE - sector_offset
    IN IF len >= sector_remaining
       THEN LET f == flush_buffer(st, fail)
            IN IF f.err
               THEN [st |-> f.st, err |-> TRUE, ek |-> f.ek, n |-> 0]
               ELSE [st |-> [f.st EXCEPT !.state = "Invalid", !.offset = @ + len],
                     err |-> FALSE, ek |-> "", n |-> len]
       ELSE [st |-> st, err |-> FALSE, ek |-> "", n |-> len]

\* post_io(len): [st, err, n]
post_io(st, len, fail) ==
    LET sector_offset == st.offset % SECTOR_SIZE
        sector_remaining == SECTOR_SIZE - sector_offset
    IN IF len >= sector_remaining
       THEN LET f == flush_buffer(st, fail)
            IN IF f.err
               THEN [st |-> f.st, err |-> TRUE, ek |-> f.ek, n |-> 0]
               ELSE [st |-> [f.st EXCEPT !.state = "Invalid", !.offset = @ + len],
                     err |-> FALSE, ek |-> "", n |-> len]
       ELSE [st |-> [st EXCEPT !.offset = @ + len], err |-> FALSE, ek |-> "", n |-> len]

\* buf with the bytes of src stored from (0-based) position off on
CopyInto(buf, off, src) ==
    [i \in 1..Len(buf) |-> IF i > off /\ i <= off + Len(src) THEN src[i - off] ELSE buf[i]]

\* do_write as it would be if the buffered path copied without marking the buffer Dirty
do_write_KeepState(st, buf, fail) ==
    LET p == pre_io(st, Len(buf), fail)
    IN IF p.err THEN [st |-> p.st, err |-> TRUE, ek |-> p.ek, n |-> 0]
       ELSE CASE p.io.kind = "Direct" ->
                   LET w == DeviceWriteLba(p.st, current_sector(p.st), SubSeq(buf, 1, p.io.len), fail)
                   IN IF w.err THEN [st |-> w.st, err |-> TRUE, ek |-> "BrokenPipe", n |-> 0]
                      ELSE post_io(w.st, p.io.len, fail)
              [] p.io.kind = "Buffered" ->
                   post_io([p.st EXCEPT
                              !.buffer = CopyInto(@, p.io.offset, SubSeq(buf, 1, p.io.len))],
                           p.io.len, fail)
              [] p.io.kind = "Eof" -> [st |-> p.st, err |-> TRUE, ek |-> "Other", n |-> 0]

\* do_write(buf) / Write::write: [st, err, n]
do_write(st, buf, fail) ==
    LET p == pre_io(st, Len(buf), fail)
    IN IF p.err THEN [st |-> p.st, err |-> TRUE, ek |-> p.ek, n |-> 0]
       ELSE CASE p.io.kind = "Direct" ->
                   LET w == DeviceWriteLba(p.st, current_sector(p.st), SubSeq(buf, 1, p.io.len), fail)
                   IN IF w.err THEN [st |-> w.st, err |-> TRUE, ek |-> "BrokenPipe", n |-> 0]
                      ELSE post_io(w.st, p.io.len, fail)
              [] p.io.kind = "Buffered" ->
                   post_io([p.st EXCEPT
                              !.buffer = CopyInto(@, p.io.offset, SubSeq(buf, 1, p.io.len)),
                              !.state = "Dirty"],
                           p.io.len, fail)
              [] p.io.kind = "Eof" -> [st |-> p.st, err |-> TRUE, ek |-> "Other", n |-> 0]

\* do_read(buf) / Read::read: [st, err, n, data], data being the n bytes stored in buf
do_read(st, len, fail) ==
    LET p == pre_io(st, len, fail)
    IN IF p.err THEN [st |-> p.st, err |-> TRUE, ek |-> p.ek, n |-> 0, data |-> <<>>]
       ELSE CASE p.io.kind = "Direct" ->
                   LET r == DeviceReadLba(p.st, current_sector(p.st), p.io.len, fail)
                   IN IF r.err THEN [st |-> r.st, err |-> TRUE, ek |-> "BrokenPipe", n |-> 0, data |-> <<>>]
                      ELSE LET q == post_io(r.st, p.io.len, fail)
                           IN [st |-> q.st, err |-> q.err, ek |-> q.ek, n |-> q.n, data |-> r.data]
              [] p.io.kind = "Buffered" ->
                   LET q == post_io(p.st, p.io.len, fail)
                   IN [st |-> q.st, err |-> q.err, ek |-> q.ek, n |-> q.n,
                       data |-> SubSeq(p.st.buffer, p.io.offset + 1, p.io.offset + p.io.len)]
              [] p.io.kind = "Eof" ->
                   LET q == post_io(p.st, 0, fail)
                   IN [st |-> q.st, err |-> q.err, ek |-> q.ek, n |-> q.n, data |-> <<>>]

\* a - b, saturating at 0 (u64::saturating_sub)
SaturatingSub(a, b) == IF b > a THEN 0 ELSE a - b

\* do_seek as it would be if SeekFrom::Start and positive SeekFrom::Current were not
\* limited to size
do_seek_NoClamp(st, pos) ==
    CASE pos.whence = "Start" -> pos.off
      [] pos.whence = "End" ->
           IF pos.off > 0 THEN st.size ELSE SaturatingSub(st.size, -pos.off)
      [] pos.whence = "Current" ->
           IF pos.off > 0 THEN st.offset + pos.off
           ELSE SaturatingSub(st.offset, -pos.off)

\* do_seek(pos) / Seek::seek: the new offset
do_seek(st, pos) ==
    CASE pos.whence = "Start" -> Min(st.size, pos.off)
      [] pos.whence = "End" ->
           IF pos.off > 0 THEN st.size ELSE SaturatingSub(st.size, -pos.off)
      [] pos.whence = "Current" ->
           IF pos.off > 0 THEN Min(st.offset + pos.off, st.size)
           ELSE SaturatingSub(st.offset, -pos.off)

\* intra-sector positions the calls seek to
SectorOffsets == {0, 100, 509}
\* SeekFrom values handed to seek
SeekPositions ==
    {[whence |-> "Start", off |-> o] : o \in SectorOffsets}
    \cup {[whence |-> "Start", off |-> (DevSectors - 1) * SECTOR_SIZE],
          [whence |-> "Current", off |-> -3]}
\* lengths of the caller's buffers
IoLens == {3, SECTOR_SIZE}
\* the bytes a caller writes, none of them 0
WriteDataAt(seed, i) == ((seed * 37 + i * 3) % 255) + 1
WriteData(seed, len) == [i \in 1..len |-> WriteDataAt(seed, i)]
\* the content of the flash when the adapter is created
FlashInit == [k \in 1..DevSectors |-> [i \in 1..SECTOR_SIZE |-> (k * 64 + i) % 256]]

Call(op, at, pos, len, seed, kind, ok, n, cmds, ek) ==
    [op |-> op, at |-> at, pos |-> pos, len |-> len, seed |-> seed, kind |-> kind,
     ok |-> ok, n |-> n, cmds |-> cmds, st |-> state, ek |-> ek]
NoPos == [whence |-> "-", off |-> 0]

\* the path pre_io chooses for a call of len bytes at the current position
IoKind(len) ==
    IF offset >= size THEN "Eof"
    ELSE IF offset % SECTOR_SIZE = 0 /\ len >= SECTOR_SIZE THEN "Direct" ELSE "Buffered"

\* the call loaded the sector buffer: its first command is pre_io's read_lba of one sector
Loaded(kind, cmds) ==
    /\ kind = "Buffered" /\ cmds # <<>>
    /\ cmds[1].cmd = "read_lba" /\ cmds[1].sector = current_sector(Inner)
    /\ cmds[1].len = SECTOR_SIZE /\ cmds[1].ok

\* the buffer positions a write of len bytes copies to on the buffered path
CopiedPositions(len) ==
    LET sector_offset == offset % SECTOR_SIZE
    IN sector_offset .. (sector_offset + Min(len, SECTOR_SIZE - sector_offset) - 1)

\* Seek::seek(pos)
Seek(pos) ==
    /\ Len(calls) < MaxCalls
    /\ offset' = do_seek(Inner, pos)
    /\ calls' = Append(calls, Call("seek", offset, pos, 0, 0, "-", TRUE, offset', <<>>, ""))
    /\ UNCHANGED <<size, buffer, state, flash, read_buf, modified, sector_at_write>>
    /\ UNCHANGED <<opVars, mrVars, asVars, wireVars, exVars, trVars>>

\* Read::read(buf) with a buffer of len bytes
Read(len, fail) ==
    /\ Len(calls) < MaxCalls
    /\ LET r == do_read(Inner, len, fail)
       IN /\ offset' = r.st.offset
          /\ buffer' = r.st.buffer
          /\ state' = r.st.state
          /\ flash' = r.st.flash
          /\ read_buf' = r.data
          /\ modified' = IF Loaded(IoKind(len), r.st.cmds) THEN {} ELSE modified
          /\ calls' = Append(calls, Call("read", offset, NoPos, len, 0, IoKind(len),
                                         ~r.err, r.n, r.st.cmds, r.ek))
    /\ UNCHANGED <<size, sector_at_write>>
    /\ UNCHANGED <<opVars, mrVars, asVars, wireVars, exVars, trVars>>

\* Write::write(buf) with buf = WriteData(seed, len)
Write(seed, len, fail) ==
    /\ Len(calls) < MaxCalls
    /\ LET r == do_write(Inner, WriteData(seed, len), fail)
       IN /\ offset' = r.st.offset
          /\ buffer' = r.st.buffer
          /\ state' = r.st.state
          /\ flash' = r.st.flash
          /\ calls' = Append(calls, Call("write", offset, NoPos, len, seed, IoKind(len),
                                         ~r.err, r.n, r.st.cmds, r.ek))
          /\ modified' =
                 IF IoKind(len) # "Buffered" THEN modified
                 ELSE IF Loaded(IoKind(len), r.st.cmds) THEN CopiedPositions(len)
                 ELSE IF state = "Invalid" THEN modified
                 ELSE modified \cup CopiedPositions(len)
    /\ sector_at_write' = IF offset < size THEN flash[current_sector(Inner) + 1] ELSE <<>>
    /\ UNCHANGED <<size, read_buf>>
    /\ UNCHANGED <<opVars, mrVars, asVars, wireVars, exVars, trVars>>

\* Write::flush()
Flush(fail) ==
    /\ Len(calls) < MaxCalls
    /\ LET r == flush_buffer(Inner, fail)
       IN /\ state' = r.st.state
          /\ flash' = r.st.flash
          /\ calls' = Append(calls, Call("flush", offset, NoPos, 0, 0, "-", ~r.err, 0, r.st.cmds, r.ek))
    /\ UNCHANGED <<offset, size, buffer, read_buf, modified, sector_at_write>>
    /\ UNCHANGED <<opVars, mrVars, asVars, wireVars, exVars, trVars>>

\* the 11 bytes a flash of the given number of sectors answers to ReadFlashInfo
FlashInfoPayload(sectors) == PutU32LE(sectors) \o Zeros(7)
\* FlashInfo::sectors
FlashInfo_sectors(info) == GetU32LE(info, 1)
\* FlashInfo::size
FlashInfo_size(info) == FlashInfo_sectors(info) * SECTOR_SIZE

\* DeviceIO::new / TransportIO::new on a flash of DevSectors sectors
InitIO ==
    /\ OpIdle /\ MrIdle /\ AsIdle /\ WireIdle /\ ExIdle /\ DriverIdle
    /\ offset = 0
    /\ size = FlashInfo_size(FlashInfoPayload(DevSectors))
    /\ buffer = Zeros(SECTOR_SIZE)
    /\ state = "Invalid"
    /\ flash = FlashInit
    /\ calls = <<>>
    /\ read_buf = <<>>
    /\ modified = {}
    /\ sector_at_write = <<>>

NextIO ==
    \/ \E pos \in SeekPositions : Seek(pos)
    \/ \E len \in IoLens : Read(len, 0)
    \/ \E len \in IoLens : Write(Len(calls) + 1, len, 0)
    \/ Flush(0)

SpecIO == InitIO /\ [][NextIO]_vars

(***************************************************************************)
(* Claims about the block adapter                                          *)
(***************************************************************************)
\* the last k-th call (1 = the most recent)
Last(k) == calls[Len(calls) + 1 - k]
\* the read_lba commands a call issued
ReadLbas(c) == SelectSeq(c.cmds, LAMBDA x : x.cmd = "read_lba")

\* seek(Start(512 s + o)); write(d); seek(Start(512 s)); read(512 bytes) have just been
\* made, with 0 < |d| and o + |d| <= 512
UnalignedWriteThenSectorRead ==
    /\ Len(calls) >= 4
    /\ Last(4).op = "seek" /\ Last(4).pos.whence = "Start" /\ Last(4).pos.off = Last(4).n
    /\ Last(3).op = "write" /\ Last(3).len > 0
    /\ (Last(3).at % SECTOR_SIZE) + Last(3).len <= SECTOR_SIZE
    /\ Last(2).op = "seek" /\ Last(2).pos.whence = "Start"
    /\ Last(2).pos.off = (Last(3).at \div SECTOR_SIZE) * SECTOR_SIZE
    /\ Last(1).op = "read" /\ Last(1).len = SECTOR_SIZE

\* C9: after seek(Start(512 s + o)); write(d); seek(Start(512 s)), a read of 512 bytes
\* returns the device's sector s with d overlaid at positions o .. o+|d|.
C9_UnalignedWriteThenSectorRead ==
    UnalignedWriteThenSectorRead =>
        /\ Last(1).ok /\ Last(1).n = SECTOR_SIZE
        /\ read_buf = CopyInto(sector_at_write, Last(3).at % SECTOR_SIZE,
                               WriteData(Last(3).seed, Last(3).len))

\* a write has copied n bytes into the sector buffer at [p, p+n), then a seek has gone
\* back to p and a read of n bytes has been made
BufferedWriteReadBack ==
    /\ Len(calls) >= 3
    /\ Last(3).op = "write" /\ Last(3).kind = "Buffered" /\ Last(3).ok /\ Last(3).n > 0
    /\ Last(2).op = "seek" /\ Last(2).n = Last(3).at
    /\ Last(1).op = "read" /\ Last(1).len = Last(3).n

\* the write of BufferedWriteReadBack ended exactly at the end of its sector
WriteEndedAtSectorEnd == (Last(3).at + Last(3).n) % SECTOR_SIZE = 0

\* the read returned exactly the bytes the write copied
ReadBackValues ==
    /\ Last(1).ok /\ Last(1).n = Last(3).n
    /\ read_buf = SubSeq(WriteData(Last(3).seed, Last(3).len), 1, Last(3).n)

\* C10 as stated: the read back returns the written values and issues no read_lba,
\* whether or not the write ended exactly at the end of its sector.
C10_ReadBackNoReadLba ==
    BufferedWriteReadBack => (ReadBackValues /\ ReadLbas(Last(1)) = <<>>)

\* C10 (amended): the read back returns the written values; it issues no read_lba when
\* the write ended before the end of its sector, and exactly one read_lba, of that
\* sector, when the write ended exactly at the end of its sector.
C10_ReadBackValues ==
    BufferedWriteReadBack =>
        /\ ReadBackValues
        /\ IF WriteEndedAtSectorEnd
           THEN Last(1).cmds = <<Cmd("read_lba", Last(3).at \div SECTOR_SIZE, SECTOR_SIZE, TRUE)>>
           ELSE Last(1).cmds = <<>>

\* a read back after a buffered write that ended exactly at the end of its sector
C10_Witness == BufferedWriteReadBack /\ WriteEndedAtSectorEnd /\ ReadBackValues

\* the device's content of the current sector
CurrentSectorOnDevice == flash[current_sector(Inner) + 1]

\* C11: in every reachable state, a Valid buffer equals the device's content of sector
\* offset/512, and a Dirty buffer equals it except at the positions written through the
\* buffer since it was loaded.
C11_CacheInvariant ==
    offset < size =>
        /\ state = "Valid" => buffer = CurrentSectorOnDevice
        /\ state = "Dirty" =>
              \A i \in 1..SECTOR_SIZE :
                  (i - 1) \notin modified => buffer[i] = CurrentSectorOnDevice[i]

\* the last call but one was a seek that changed the current sector, and the last call
\* is the read or write that followed it
ReadOrWriteAfterSectorChange ==
    /\ Len(calls) >= 2
    /\ Last(1).op \in {"read", "write"}
    /\ Last(2).op = "seek"
    /\ Last(2).at \div SECTOR_SIZE # Last(2).n \div SECTOR_SIZE

\* C12: when a seek changes the current sector, then before the next read or write a
\* Dirty buffer has been written with write_lba to the sector that was current before
\* the seek, and the cache state is Invalid.
C12_SeekRule ==
    ReadOrWriteAfterSectorChange =>
        /\ Last(1).st = "Invalid"
        /\ Last(2).st = "Dirty" =>
              \E i \in 1..Len(Last(2).cmds) :
                  Last(2).cmds[i] = Cmd("write_lba", Last(2).at \div SECTOR_SIZE, SECTOR_SIZE, TRUE)

(***************************************************************************)
(* The block adapter under seeks of every kind                             *)
(***************************************************************************)
\* calls made on one adapter when every kind of seek is tried
MaxSeekCalls == 3

\* SeekFrom values: beyond the end, before the start, and inside the device
WideSeekPositions ==
    {[whence |-> "Start", off |-> 100],
     [whence |-> "Start", off |-> DevSectors * SECTOR_SIZE + 1],
     [whence |-> "End", off |-> 1],
     [whence |-> "End", off |-> -1],
     [whence |-> "End", off |-> -(DevSectors * SECTOR_SIZE + 1)],
     [whence |-> "Current", off |-> DevSectors * SECTOR_SIZE + 1],
     [whence |-> "Current", off |-> -101]}
\* lengths of the caller's buffers: within a sector, and over the end of the device
WideIoLens == {3, DevSectors * SECTOR_SIZE + SECTOR_SIZE}

NextSeek ==
    \/ Len(calls) < MaxSeekCalls /\ \E pos \in WideSeekPositions : Seek(pos)
    \/ Len(calls) < MaxSeekCalls /\ \E len \in WideIoLens : Read(len, 0)
    \/ Len(calls) < MaxSeekCalls /\ \E len \in WideIoLens : Write(Len(calls) + 1, len, 0)
    \/ Len(calls) < MaxSeekCalls /\ Flush(0)

SpecSeek == InitIO /\ [][NextSeek]_vars

\* C13: after any sequence of seek, read, write and flush calls, 0 <= offset <= size,
\* size being sectors * 512 from flash_info.
C13_PositionInvariant ==
    /\ size = DevSectors * SECTOR_SIZE
    /\ 0 <= offset /\ offset <= size

\* a seek beyond the end, or before the start, from a position inside the device
C13_Witness ==
    /\ calls # <<>> /\ Last(1).op = "seek"
    /\ Last(1).at > 0 /\ Last(1).at < size
    /\ \/ Last(1).pos.whence \in {"Start", "Current"} /\ Last(1).at + Last(1).pos.off > size
       \/ Last(1).pos.whence = "Current" /\ Last(1).at + Last(1).pos.off < 0

\* the step is a write call made when offset >= size
WriteAtEndStep ==
    /\ Len(calls') = Len(calls) + 1
    /\ calls'[Len(calls')].op = "write"
    /\ offset >= size

\* C14: a write call made when offset >= size returns an error, leaves offset unchanged,
\* issues no device command, and leaves the sector buffer and the cache state unchanged.
C14_WriteAtEnd ==
    [][WriteAtEndStep =>
          /\ ~calls'[Len(calls')].ok
          /\ calls'[Len(calls')].cmds = <<>>
          /\ offset' = offset
          /\ buffer' = buffer
          /\ state' = state
          /\ flash' = flash]_vars

\* a write call has been made at the end of the device with a loaded buffer
C14_Witness ==
    /\ calls # <<>> /\ Last(1).op = "write"
    /\ Last(1).at = size /\ Last(1).st = "Valid" /\ ~Last(1).ok

(***************************************************************************)
(* device.rs / nusb.rs: the async block adapter (DeviceIOAsync, TransportIO)*)
(***************************************************************************)
\* poll_* calls made on one adapter
MaxPolls == 4

\* the arm of poll_read / poll_write / poll_flush that runs for an operation of kind op
\* when io_state is of kind k: start the future and poll it, poll the future in flight,
\* or return the 'Invalid transport state' error
PollArmRestart(op, k) == IF k = op THEN "Poll" ELSE "Start"
PollArm(op, k) == IF k = "Idle" THEN "Start" ELSE IF k = op THEN "Poll" ELSE "Reject"

\* the arm of poll_seek that runs when io_state is of kind k
SeekArmAlways(k) == "Seek"
SeekArm(k) == IF k = "Idle" THEN "Seek" ELSE "Reject"

\* what the future of an operation does to the inner state it owns: [st, err, n, data]
RunFuture(f) ==
    CASE f.kind = "Read" -> do_read(Inner, f.len, 0)
      [] f.kind = "Write" -> do_write(Inner, WriteData(f.seed, f.len), 0) @@ [data |-> <<>>]
      [] f.kind = "Flush" -> flush_buffer(Inner, 0) @@ [n |-> 0, data |-> <<>>]

\* the future as it would be if a write took a copy of at most one sector of the
\* caller's buffer
Future_CapSector(op, len, seed) ==
    [kind |-> op, inner |-> "Owned", len |-> IF op = "Write" THEN Min(len, SECTOR_SIZE) ELSE len,
     seed |-> seed, at0 |-> offset, expect |-> <<>>]

\* the future poll_read / poll_write / poll_flush creates in the Idle arm; a write takes
\* a copy of at most MAXIO_SIZE bytes of the caller's buffer
Future(op, len, seed) ==
    [kind |-> op, inner |-> "Owned", len |-> IF op = "Write" THEN Min(len, MAXIO_SIZE) ELSE len,
     seed |-> seed, at0 |-> offset, expect |-> <<>>]

\* (history) the future with the result r it has when it runs on the inner state it took
Expecting(f, r) == [f EXCEPT !.expect = <<~r.err, r.n>>]

Poll(op, pos, len, outcome, ok, n, cmds) ==
    [op |-> op, pos |-> pos, len |-> len, before |-> io_state.kind, outcome |-> outcome,
     ok |-> ok, n |-> n, cmds |-> cmds, at |-> offset, at0 |-> io_state.at0,
     expect |-> io_state.expect]

\* me.io_state = IoState::Idle(None), as it would be if the inner state were not put back
Restored_Empty == [IdleState EXCEPT !.inner = "None"]
\* me.io_state = IoState::Idle(Some(inner))
Restored == IdleState

\* the future is ready with r: the inner state goes back to Idle and the result to the
\* caller; poll_read copies the r.n bytes read into the len bytes of this call's buffer
Complete(op, len, r, panics) ==
    /\ io_state' = Restored
    /\ offset' = r.st.offset
    /\ buffer' = r.st.buffer
    /\ state' = r.st.state
    /\ flash' = r.st.flash
    /\ read_buf' = IF op = "Read" /\ ~r.err /\ ~panics THEN r.data ELSE read_buf
    /\ polls' = Append(polls, Poll(op, NoPos, len, IF panics THEN "Panic" ELSE "Ready",
                                   ~r.err, r.n, r.st.cmds))
    /\ UNCHANGED <<size, calls, modified, sector_at_write>>

\* the arm of poll_read / poll_write / poll_flush, f being the future it polls
PollIoArm(op, len, ready, arm, f) ==
    CASE arm = "Reject" ->
           /\ polls' = Append(polls, Poll(op, NoPos, len, "Rejected", FALSE, 0, <<>>))
           /\ UNCHANGED <<io_state, ioVars>>
      [] arm # "Reject" /\ ~ready ->
           /\ io_state' = f
           /\ polls' = Append(polls, Poll(op, NoPos, len, "Pending", FALSE, 0, <<>>))
           /\ UNCHANGED ioVars
      [] arm # "Reject" /\ ready ->
           \E r \in {RunFuture(f)} :
              Complete(op, len, r, op = "Read" /\ ~r.err /\ r.n > len)

\* poll_read / poll_write / poll_flush with a buffer of len bytes; `ready` tells whether
\* the future completes in this poll
PollIo(op, len, seed, ready) ==
    /\ Len(polls) < MaxPolls
    /\ IF PollArm(op, io_state.kind) = "Start" /\ io_state.inner # "Some"
       THEN \* inner.take().unwrap() on an empty slot
            /\ polls' = Append(polls, Poll(op, NoPos, len, "Panic", FALSE, 0, <<>>))
            /\ UNCHANGED <<io_state, ioVars>>
       ELSE \E f \in {IF PollArm(op, io_state.kind) = "Start"
                      THEN Expecting(Future(op, len, seed), RunFuture(Future(op, len, seed)))
                      ELSE io_state} :
               PollIoArm(op, len, ready, PollArm(op, io_state.kind), f)
    /\ UNCHANGED <<opVars, mrVars, wireVars, exVars, trVars>>

\* AsyncRead::poll_read
PollRead(len, ready) == PollIo("Read", len, 0, ready)
\* AsyncWrite::poll_write with buf = WriteData(seed, len)
PollWrite(seed, len, ready) == PollIo("Write", len, seed, ready)
\* AsyncWrite::poll_flush
PollFlush(ready) == PollIo("Flush", 0, 0, ready)

\* AsyncSeek::poll_seek
PollSeek(pos) ==
    /\ Len(polls) < MaxPolls
    /\ IF SeekArm(io_state.kind) = "Seek" /\ io_state.inner # "None"
       THEN /\ offset' = do_seek(Inner, pos)
            /\ polls' = Append(polls, Poll("Seek", pos, 0, "Ready", TRUE, offset', <<>>))
       ELSE /\ offset' = offset
            /\ polls' = Append(polls, Poll("Seek", pos, 0, "Rejected", FALSE, 0, <<>>))
    /\ UNCHANGED <<size, buffer, state, flash, calls, read_buf, modified, sector_at_write>>
    /\ UNCHANGED <<io_state, opVars, mrVars, wireVars, exVars, trVars>>

\* DeviceIOAsync::new / TransportIO::new
InitAsync == InitIO

\* inputs of the poll_* calls
AsyncSeekPositions == {[whence |-> "Start", off |-> 100], [whence |-> "End", off |-> 0]}
AsyncReadLens == {3, SECTOR_SIZE}
AsyncWriteLens == {3}

NextAsync ==
    \/ \E pos \in AsyncSeekPositions : PollSeek(pos)
    \/ \E len \in AsyncReadLens, ready \in BOOLEAN : PollRead(len, ready)
    \/ \E len \in AsyncWriteLens, ready \in BOOLEAN : PollWrite(Len(polls) + 1, len, ready)
    \/ \E ready \in BOOLEAN : PollFlush(ready)

SpecAsync == InitAsync /\ [][NextAsync]_vars

(***************************************************************************)
(* Claims about the async block adapter (checked under SpecAsync)          *)
(***************************************************************************)
\* the step makes a poll_* call
PollStep == Len(polls') = Len(polls) + 1
\* the call the step makes, with its outcome
ThisPoll == polls'[Len(polls')]
\* the polls that completed an operation that was in flight when they were made
CompletedInFlight ==
    {i \in 1..Len(polls) : polls[i].outcome \in {"Ready", "Panic"} /\ polls[i].before # "Idle"}

\* C19: while a read, write or flush is in flight, polling an operation of a different
\* kind returns the 'Invalid transport state' error, starts no device command and leaves
\* the operation in flight intact, which still completes with its own result.
C19_Reentrancy ==
    /\ [][(/\ PollStep
           /\ ThisPoll.op \in {"Read", "Write", "Flush"}
           /\ io_state.kind \notin {"Idle", ThisPoll.op}) =>
              /\ ThisPoll.outcome = "Rejected" /\ ~ThisPoll.ok
              /\ ThisPoll.cmds = <<>>
              /\ io_state' = io_state
              /\ offset' = offset /\ buffer' = buffer /\ state' = state /\ flash' = flash]_vars
    /\ [](\A i \in CompletedInFlight :
              /\ polls[i].op = polls[i].before
              /\ <<polls[i].ok, polls[i].n>> = polls[i].expect)

\* a write was started, a read and a flush were rejected, and the write then completed
C19_Witness ==
    /\ Len(polls) = 4
    /\ polls[1].op = "Write" /\ polls[1].outcome = "Pending"
    /\ polls[2].op = "Read" /\ polls[2].outcome = "Rejected"
    /\ polls[3].op = "Flush" /\ polls[3].outcome = "Rejected"
    /\ polls[4].op = "Write" /\ polls[4].outcome = "Ready" /\ polls[4].ok /\ polls[4].n = 3

\* C20: poll_seek applies the offset rule of the blocking adapter only when nothing is in
\* flight; otherwise it returns the 'Invalid transport state' error, and the offset the
\* operation in flight observes, and the offset after its completion, are not changed.
C20_AsyncSeek ==
    /\ [][(PollStep /\ ThisPoll.op = "Seek") =>
              IF io_state.kind = "Idle"
              THEN /\ ThisPoll.outcome = "Ready" /\ ThisPoll.ok
                   /\ offset' = do_seek(Inner, ThisPoll.pos)
                   /\ ThisPoll.n = offset'
              ELSE /\ ThisPoll.outcome = "Rejected" /\ ~ThisPoll.ok
                   /\ offset' = offset
                   /\ io_state' = io_state]_vars
    /\ [][(PollStep /\ io_state.kind # "Idle" /\ io_state' = IdleState) =>
              /\ offset = io_state.at0
              /\ ThisPoll.ok => offset' = io_state.at0 + ThisPoll.n]_vars

\* a read was started at offset 100, a seek was rejected, and the read then completed
C20_Witness ==
    /\ Len(polls) = 4
    /\ polls[1].op = "Seek" /\ polls[1].outcome = "Ready" /\ polls[1].n = 100
    /\ polls[2].op = "Read" /\ polls[2].outcome = "Pending"
    /\ polls[3].op = "Seek" /\ polls[3].outcome = "Rejected"
    /\ polls[4].op = "Read" /\ polls[4].outcome = "Ready" /\ polls[4].ok
    /\ polls[4].at = 100 /\ offset = 100 + polls[4].n

\* C36: after every poll the adapter is Idle holding its inner state, or holds one
\* read, write or flush future that owns the inner state; the empty Idle slot is never
\* seen, so no poll panics taking it; a poll that completes the operation in flight,
\* with Ok or with an error, leaves the adapter Idle with the inner state the future
\* handed back; and a poll made when the adapter is Idle is never turned away.
C36_StateOwnership ==
    /\ [](\/ io_state = IdleState
          \/ io_state.kind \in {"Read", "Write", "Flush"} /\ io_state.inner = "Owned")
    /\ [][(PollStep /\ ThisPoll.op # "Seek" /\ ThisPoll.outcome = "Ready") =>
             /\ io_state' = IdleState
             /\ <<offset', buffer', state', flash'>>
                  = <<RunFuture(IF io_state.kind = "Idle"
                                THEN Future(ThisPoll.op, ThisPoll.len, Len(polls) + 1)
                                ELSE io_state).st.offset,
                      RunFuture(IF io_state.kind = "Idle"
                                THEN Future(ThisPoll.op, ThisPoll.len, Len(polls) + 1)
                                ELSE io_state).st.buffer,
                      RunFuture(IF io_state.kind = "Idle"
                                THEN Future(ThisPoll.op, ThisPoll.len, Len(polls) + 1)
                                ELSE io_state).st.state,
                      RunFuture(IF io_state.kind = "Idle"
                                THEN Future(ThisPoll.op, ThisPoll.len, Len(polls) + 1)
                                ELSE io_state).st.flash>>]_vars
    /\ [][(PollStep /\ io_state.kind = "Idle") =>
             /\ ThisPoll.outcome \in {"Ready", "Pending"}
             /\ ThisPoll.outcome = "Pending" =>
                   io_state'.kind = ThisPoll.op /\ io_state'.inner = "Owned"]_vars

\* a write at the end of the device completed with an error in the poll that started
\* it, and the read and the seek that followed were accepted by the Idle adapter
C36_Witness ==
    /\ Len(polls) = 4
    /\ polls[1].op = "Seek" /\ polls[1].n = size
    /\ polls[2].op = "Write" /\ polls[2].outcome = "Ready" /\ ~polls[2].ok
    /\ polls[3].op = "Read" /\ polls[3].before = "Idle" /\ polls[3].outcome = "Pending"
    /\ polls[4].op = "Read" /\ polls[4].before = "Read" /\ polls[4].outcome = "Ready"
    /\ io_state = IdleState

(***************************************************************************)
(* protocol.rs: the CBW and the CSW on the wire                            *)
(***************************************************************************)
\* the values of #[repr(u8)] enum CommandCode
CommandCodes ==
    {0, 1, 3, 4, 5, 6, 11, 20, 21, 22, 23, 24, 25, 26, 27, 30, 31, 32, 33, 34, 35, 36, 37,
     170, 255}
\* Direction::try_from(u8)
DirectionBytes == {128, 0}
Direction_try_from(b) == IF b = 128 THEN "In" ELSE "Out"
\* Status as u8
StatusByte(st) == IF st = "SUCCESS" THEN 0 ELSE 1

\* bytes::Buf::get_u16 (big-endian)
GetU16BE(b, p) == b[p] * 256 + b[p + 1]

\* bytes the cursor of CommandBlock::from_bytes consumes: 4 + 4 + 4 + 5 * 1 + 4 + 1 + 2
CbwConsumed == 24

\* CommandBlock::from_bytes as it would be if the command code were converted before
\* the direction
CommandBlock_from_bytes_CodeFirst(bytes) ==
    IF Len(bytes) < COMMAND_BLOCK_BYTES
    THEN Err("InvalidLength", Len(bytes))
    ELSE IF SubSeq(bytes, 1, 4) # USBC
    THEN Err("InvalidSignature", SubSeq(bytes, 1, 4))
    ELSE IF bytes[16] \notin CommandCodes
    THEN Err("UnknownCommandCode", bytes[16])
    ELSE IF bytes[13] \notin DirectionBytes
    THEN Err("UnknownFlags", bytes[13])
    ELSE Ok([tag |-> GetU32BE(bytes, 5),
             transfer_length |-> GetU32LE(bytes, 9),
             flags |-> Direction_try_from(bytes[13]),
             lun |-> bytes[14],
             cdb_length |-> bytes[15],
             cd_code |-> bytes[16],
             cd_opcode |-> bytes[17],
             cd_address |-> GetU32BE(bytes, 18),
             cd_length |-> GetU16BE(bytes, 23)])

\* CommandBlock::from_bytes. The cursor reads panic when fewer bytes are left than
\* they consume; the length test in front keeps that from happening.
CommandBlock_from_bytes(bytes) ==
    IF Len(bytes) < COMMAND_BLOCK_BYTES
    THEN Err("InvalidLength", Len(bytes))
    ELSE IF Len(bytes) < CbwConsumed
    THEN Err("Panic", <<>>)
    ELSE IF SubSeq(bytes, 1, 4) # USBC
    THEN Err("InvalidSignature", SubSeq(bytes, 1, 4))
    ELSE IF bytes[13] \notin DirectionBytes
    THEN Err("UnknownFlags", bytes[13])
    ELSE IF bytes[16] \notin CommandCodes
    THEN Err("UnknownCommandCode", bytes[16])
    ELSE Ok([tag |-> GetU32BE(bytes, 5),
             transfer_length |-> GetU32LE(bytes, 9),
             flags |-> Direction_try_from(bytes[13]),
             lun |-> bytes[14],
             cdb_length |-> bytes[15],
             cd_code |-> bytes[16],
             cd_opcode |-> bytes[17],
             cd_address |-> GetU32BE(bytes, 18),
             cd_length |-> GetU16BE(bytes, 23)])

\* CommandStatus::to_bytes: writes the 13 encoded bytes at the start of `bytes` and
\* returns COMMAND_STATUS_BYTES
CommandStatus_to_bytes(c, bytes) ==
    LET enc == USBS \o PutU32BE(c.tag) \o PutU32LE(c.residue) \o << StatusByte(c.status) >>
    IN [bytes |-> enc \o SubSeq(bytes, Len(enc) + 1, Len(bytes)),
        len |-> COMMAND_STATUS_BYTES]

\* the CommandStatus a successful CommandStatus::from_bytes returned
CommandStatus_of(r) == [tag |-> r.tag, residue |-> r.residue, status |-> r.status]

(***************************************************************************)
(* Bounds and input sets of the wire model                                 *)
(***************************************************************************)
\* largest byte the caller's buffer holds before to_bytes writes into it
MaxFillByte == 1
\* bytes of a received frame replaced by other values
MaxMangled == 2

\* u32 field values (tag, transfer_length, cd_address, residue), those of the unit
\* tests among them
U32Values == {57005, 287454020}
Residue32Values == {0, 1432778632}
LunValues == {0, 102}
CdbLengths == {6, 119}
CdOpcodes == {0, 16}
CdLengths == {0, 21862}

CommandBlocks ==
    { [tag |-> t, transfer_length |-> tl, flags |-> d, lun |-> l, cdb_length |-> cl,
       cd_code |-> cc, cd_opcode |-> co, cd_address |-> a, cd_length |-> n] :
        t \in U32Values, tl \in U32Values, d \in {"In", "Out"}, l \in LunValues,
        cl \in CdbLengths, cc \in CommandCodes, co \in CdOpcodes, a \in U32Values,
        n \in CdLengths }
CommandStatuses ==
    { [tag |-> t, residue |-> r, status |-> st] :
        t \in U32Values, r \in Residue32Values, st \in {"SUCCESS", "FAILED"} }

\* the CommandBlock and the CommandStatus of the unit tests test::cbw and test::csw
TestCbw ==
    [tag |-> 57005, transfer_length |-> 287454020, flags |-> "Out", lun |-> 102,
     cdb_length |-> 119, cd_code |-> 11, cd_opcode |-> 16, cd_address |-> 287454020,
     cd_length |-> 21862]
TestCsw == [tag |-> 287454020, residue |-> 1432778632, status |-> "SUCCESS"]

\* frames a peer may send: the encodings of the test values, cut or extended to some
\* length, with the signature, direction, command code or status bytes replaced
FrameLengths == {0, 12, 13, 23, 24, 30, 31, 32}
MangledPositions == {1, 13, 16}
MangledValues == {2, 128}
Resize(b, n) == [i \in 1..n |-> IF i <= Len(b) THEN b[i] ELSE 0]
BaseFrames ==
    { CommandBlock_to_bytes(TestCbw, Zeros(COMMAND_BLOCK_BYTES)).bytes,
      CommandStatus_to_bytes(TestCsw, Zeros(COMMAND_STATUS_BYTES)).bytes }

(***************************************************************************)
(* Actions of the wire model                                               *)
(***************************************************************************)
\* c.to_bytes(&mut b) on a buffer of COMMAND_BLOCK_BYTES bytes holding `fill`; the
\* first `len` bytes of b go on the wire
EncodeCbw(c, fill) ==
    /\ sent = NotSent
    /\ LET r == CommandBlock_to_bytes(c, [i \in 1..COMMAND_BLOCK_BYTES |-> fill])
       IN /\ sent' = [kind |-> "CBW", value |-> c, n |-> r.len]
          /\ wire_bytes' = SubSeq(r.bytes, 1, r.len)
    /\ UNCHANGED parsed
    /\ UNCHANGED <<opVars, mrVars, ioVars, asVars, exVars, trVars>>

\* s.to_bytes(&mut b) on a buffer of COMMAND_STATUS_BYTES bytes holding `fill`
EncodeCsw(c, fill) ==
    /\ sent = NotSent
    /\ LET r == CommandStatus_to_bytes(c, [i \in 1..COMMAND_STATUS_BYTES |-> fill])
       IN /\ sent' = [kind |-> "CSW", value |-> c, n |-> r.len]
          /\ wire_bytes' = SubSeq(r.bytes, 1, r.len)
    /\ UNCHANGED parsed
    /\ UNCHANGED <<opVars, mrVars, ioVars, asVars, exVars, trVars>>

\* a frame arrives from a peer: `base` cut or extended to n bytes
Receive(base, n) ==
    /\ sent = NotSent
    /\ sent' = [kind |-> "Frame", value |-> <<>>, n |-> 0]
    /\ wire_bytes' = Resize(base, n)
    /\ UNCHANGED parsed
    /\ UNCHANGED <<opVars, mrVars, ioVars, asVars, exVars, trVars>>

\* one byte of the received frame has another value
Mangle(p, v) ==
    /\ sent.kind = "Frame"
    /\ sent.n < MaxMangled
    /\ parsed = NotParsed
    /\ p <= Len(wire_bytes)
    /\ wire_bytes[p] # v
    /\ wire_bytes' = SetByte(wire_bytes, p, v)
    /\ sent' = [sent EXCEPT !.n = @ + 1]
    /\ UNCHANGED parsed
    /\ UNCHANGED <<opVars, mrVars, ioVars, asVars, exVars, trVars>>

\* CommandBlock::from_bytes(&b)
DecodeCbw ==
    /\ sent # NotSent
    /\ parsed = NotParsed
    /\ parsed' = [by |-> "CBW", r |-> CommandBlock_from_bytes(wire_bytes)]
    /\ UNCHANGED <<sent, wire_bytes>>
    /\ UNCHANGED <<opVars, mrVars, ioVars, asVars, exVars, trVars>>

\* CommandStatus::from_bytes(&b)
DecodeCsw ==
    /\ sent # NotSent
    /\ parsed = NotParsed
    /\ parsed' = [by |-> "CSW", r |-> CommandStatus_from_bytes(wire_bytes)]
    /\ UNCHANGED <<sent, wire_bytes>>
    /\ UNCHANGED <<opVars, mrVars, ioVars, asVars, exVars, trVars>>

InitWire == OpIdle /\ MrIdle /\ IoIdle /\ WireIdle /\ ExIdle /\ DriverIdle

NextWire ==
    \/ sent = NotSent /\ \E c \in CommandBlocks, fill \in 0..MaxFillByte : EncodeCbw(c, fill)
    \/ sent = NotSent /\ \E c \in CommandStatuses, fill \in 0..MaxFillByte : EncodeCsw(c, fill)
    \/ sent = NotSent /\ \E base \in BaseFrames, n \in FrameLengths : Receive(base, n)
    \/ \E p \in MangledPositions, v \in MangledValues : Mangle(p, v)
    \/ DecodeCbw
    \/ DecodeCsw

SpecWire == InitWire /\ [][NextWire]_vars

(***************************************************************************)
(* Claims about the wire formats (checked under SpecWire)                  *)
(***************************************************************************)
\* C21: decoding the bytes to_bytes produced gives back the value that was encoded, for
\* every CommandBlock (31 bytes) and every CommandStatus (13 bytes).
C21_WireRoundTrip ==
    /\ sent.kind = "CBW" =>
          /\ sent.n = 31 /\ Len(wire_bytes) = 31
          /\ parsed.by = "CBW" => parsed.r.ok /\ parsed.r.value = sent.value
    /\ sent.kind = "CSW" =>
          /\ sent.n = 13 /\ Len(wire_bytes) = 13
          /\ parsed.by = "CSW" => parsed.r.ok /\ CommandStatus_of(parsed.r) = sent.value

\* the CommandBlock of test::cbw was encoded and decoded
C21_Witness ==
    /\ sent.kind = "CBW" /\ sent.value = TestCbw
    /\ parsed.by = "CBW" /\ parsed.r.ok /\ parsed.r.value = TestCbw

\* what the decoders must return for the bytes b
CbwOutcome(b) ==
    IF Len(b) < 31 THEN "InvalidLength"
    ELSE IF SubSeq(b, 1, 4) # <<85, 83, 66, 67>> THEN "InvalidSignature"
    ELSE IF b[13] \notin {128, 0} THEN "UnknownFlags"
    ELSE IF b[16] \notin CommandCodes THEN "UnknownCommandCode"
    ELSE ""
CswOutcome(b) ==
    IF Len(b) < 13 THEN "InvalidLength"
    ELSE IF SubSeq(b, 1, 4) # <<85, 83, 66, 83>> THEN "InvalidSignature"
    ELSE IF b[13] \notin {0, 1} THEN "InvalidStatus"
    ELSE ""

\* the error the decoder returned, "" for a value
ParsedOutcome == IF parsed.r.ok THEN "" ELSE parsed.r.err

\* C22: the decoders return a value or a tagged error for every byte sequence: a short
\* buffer gives InvalidLength before anything else is looked at, a wrong signature gives
\* InvalidSignature, a CBW with an unknown direction byte gives UnknownFlags and one
\* with an unknown command code gives UnknownCommandCode.
C22_DecodersTotal ==
    /\ parsed.by = "CBW" => ParsedOutcome = CbwOutcome(wire_bytes)
    /\ parsed.by = "CSW" => ParsedOutcome = CswOutcome(wire_bytes)

\* a 31-byte frame with the USBC signature, a known direction and the command code 2
C22_Witness ==
    /\ sent.kind = "Frame" /\ Len(wire_bytes) = 31
    /\ wire_bytes[13] = 0 /\ wire_bytes[16] = 2
    /\ parsed.by = "CBW" /\ ParsedOutcome = "UnknownCommandCode"

(***************************************************************************)
(* The block adapter on a device whose commands may fail                   *)
(***************************************************************************)
\* calls made on one adapter when device commands may fail
MaxFaultCalls == 3
\* the command of a call that fails: none (0), its first, its second
FailAt == {0, 1, 2}
\* seeks to the last bytes of a sector and back to its start
FaultSeekPositions == {[whence |-> "Start", off |-> 509], [whence |-> "Current", off |-> -3]}

NextFault ==
    \/ Len(calls) < MaxFaultCalls /\ \E pos \in FaultSeekPositions : Seek(pos)
    \/ Len(calls) < MaxFaultCalls /\ \E len \in IoLens, fail \in FailAt : Read(len, fail)
    \/ Len(calls) < MaxFaultCalls
         /\ \E len \in IoLens, fail \in FailAt : Write(Len(calls) + 1, len, fail)
    \/ Len(calls) < MaxFaultCalls /\ \E fail \in FailAt : Flush(fail)

SpecFault == InitIO /\ [][NextFault]_vars

\* the commands of call c that failed
FailedCmds(c) == {i \in 1..Len(c.cmds) : ~c.cmds[i].ok}
\* the load of the sector buffer by call c failed
LoadFailed(c) ==
    c.kind = "Buffered" /\ 1 \in FailedCmds(c) /\ c.cmds[1].cmd = "read_lba"
\* the write-back of the sector buffer by call c failed: a failed write_lba other than
\* the direct transfer of a write
WriteBackFailed(c) ==
    \E i \in FailedCmds(c) :
        /\ c.cmds[i].cmd = "write_lba"
        /\ ~(c.op = "write" /\ c.kind = "Direct" /\ i = 1)
\* the bytes a buffered write call c copies, and where in the sector buffer
BufferedLen(c) == Min(c.len, SECTOR_SIZE - (c.at % SECTOR_SIZE))

\* C23: a read, write or flush call whose read_lba or write_lba fails returns a
\* BrokenPipe error and does not advance the offset; a failed sector load leaves the
\* cache Invalid; a failed write-back leaves it Dirty with the pending bytes in the
\* buffer, and a successful flush made next writes them to the device.
C23_ErrorHandling ==
    /\ \A k \in 1..Len(calls) :
          FailedCmds(calls[k]) # {} =>
             /\ ~calls[k].ok /\ calls[k].ek = "BrokenPipe"
             /\ FailedCmds(calls[k]) = {Len(calls[k].cmds)}
             /\ k < Len(calls) => calls[k + 1].at = calls[k].at
    /\ Len(calls) >= 1 /\ FailedCmds(Last(1)) # {} =>
          /\ offset = Last(1).at
          /\ LoadFailed(Last(1)) => state = "Invalid"
          /\ WriteBackFailed(Last(1)) =>
                /\ state = "Dirty"
                /\ Last(1).op = "write" /\ Last(1).kind = "Buffered" =>
                      SubSeq(buffer, (offset % SECTOR_SIZE) + 1,
                             (offset % SECTOR_SIZE) + BufferedLen(Last(1)))
                        = SubSeq(WriteData(Last(1).seed, Last(1).len), 1, BufferedLen(Last(1)))
    /\ Len(calls) >= 2 /\ WriteBackFailed(Last(2)) /\ Last(1).op = "flush" /\ Last(1).ok =>
          /\ Last(1).st = "Dirty"
          /\ Last(1).cmds = <<Cmd("write_lba", offset \div SECTOR_SIZE, SECTOR_SIZE, TRUE)>>
          /\ flash[(offset \div SECTOR_SIZE) + 1] = buffer
          /\ state = "Valid"
          /\ Last(2).op = "write" /\ Last(2).kind = "Buffered" =>
                SubSeq(buffer, (offset % SECTOR_SIZE) + 1,
                       (offset % SECTOR_SIZE) + BufferedLen(Last(2)))
                  = SubSeq(WriteData(Last(2).seed, Last(2).len), 1, BufferedLen(Last(2)))

\* seek to 509; a write of 3 bytes loads the sector and fails in the write-back at the
\* sector end; flush then writes the sector
C23_Witness ==
    /\ Len(calls) = 3
    /\ calls[2].op = "write" /\ calls[2].at = 509 /\ ~calls[2].ok
    /\ WriteBackFailed(calls[2]) /\ Len(calls[2].cmds) = 2
    /\ calls[3].op = "flush" /\ calls[3].ok
    /\ state = "Valid" /\ offset = 509
    /\ SubSeq(flash[1], 510, 512) = WriteData(calls[2].seed, 3)

\* the step makes a call on the adapter
CallStep == Len(calls') = Len(calls) + 1
\* the call the step makes, with its outcome
ThisCall == calls'[Len(calls')]
\* the call wrote the sector buffer, as it is after the call, to the sector of the
\* offset the call began at
WroteBack(c) ==
    \E i \in 1..Len(c.cmds) :
        /\ c.cmds[i] = Cmd("write_lba", c.at \div SECTOR_SIZE, SECTOR_SIZE, TRUE)
        /\ flash'[(c.at \div SECTOR_SIZE) + 1] = buffer'
\* the call loaded the sector buffer from the device
LoadedSector(c) ==
    c.kind = "Buffered" /\ c.cmds # <<>> /\ c.cmds[1].cmd = "read_lba" /\ c.cmds[1].ok

\* C25: the cache state leaves Dirty only in a call in which a write_lba carrying the
\* buffer contents has succeeded; a sector load happens only when the state is Invalid,
\* and while the state is Dirty only a buffered write changes the buffer, at the
\* positions it copies to.
C25_WriteBackFirst ==
    /\ [][(state = "Dirty" /\ state' # "Dirty") => CallStep /\ WroteBack(ThisCall)]_vars
    /\ [][(CallStep /\ LoadedSector(ThisCall)) => state = "Invalid"]_vars
    /\ [][(CallStep /\ state = "Dirty") =>
             \A i \in 1..SECTOR_SIZE :
                 buffer'[i] # buffer[i] =>
                    /\ ThisCall.op = "write" /\ ThisCall.kind = "Buffered"
                    /\ i - 1 \in CopiedPositions(ThisCall.len)]_vars

\* three bytes were written at 0, and after seeking back a read of the whole sector
\* wrote the buffer back before invalidating it
C25_Witness ==
    /\ Len(calls) = 3
    /\ calls[1].op = "write" /\ calls[1].kind = "Buffered" /\ calls[1].ok
    /\ calls[3].op = "read" /\ calls[3].kind = "Direct" /\ calls[3].st = "Dirty"
    /\ calls[3].cmds = <<Cmd("read_lba", 0, SECTOR_SIZE, TRUE), Cmd("write_lba", 0, SECTOR_SIZE, TRUE)>>
    /\ state = "Invalid"
    /\ flash[1] = buffer

\* the larger of a and b
Max(a, b) == IF a >= b THEN a ELSE b
\* the offset a seek to pos must give
SeekTarget(pos) ==
    IF pos.whence = "Start" THEN Min(size, pos.off)
    ELSE IF pos.whence = "End"
         THEN (IF pos.off > 0 THEN size ELSE Max(0, size + pos.off))
         ELSE (IF pos.off > 0 THEN Min(size, offset + pos.off) ELSE Max(0, offset + pos.off))

C27_Flush ==
    /\ [][(CallStep /\ ThisCall.op = "flush") =>
             IF state = "Dirty"
             THEN /\ Len(ThisCall.cmds) = 1
                  /\ ThisCall.cmds[1].cmd = "write_lba"
                  /\ ThisCall.cmds[1].sector = offset \div SECTOR_SIZE
                  /\ ThisCall.cmds[1].len = SECTOR_SIZE
                  /\ ThisCall.ok <=> ThisCall.cmds[1].ok
                  /\ ThisCall.ok =>
                        /\ state' = "Valid"
                        /\ flash'[(offset \div SECTOR_SIZE) + 1] = buffer
                  /\ offset' = offset /\ buffer' = buffer
             ELSE /\ ThisCall.cmds = <<>> /\ ThisCall.ok
                  /\ offset' = offset /\ buffer' = buffer /\ state' = state
                  /\ flash' = flash]_vars
    /\ [](Len(calls) >= 2 /\ Last(2).op = "flush" /\ Last(2).ok /\ Last(1).op = "flush" =>
             Last(1).cmds = <<>> /\ Last(1).ok)

\* three bytes were written, a flush wrote the sector, a second flush did nothing
C27_Witness ==
    /\ Len(calls) = 3
    /\ calls[1].op = "write" /\ calls[1].ok
    /\ calls[2].op = "flush" /\ calls[2].st = "Dirty" /\ calls[2].ok
    /\ calls[2].cmds = <<Cmd("write_lba", 0, SECTOR_SIZE, TRUE)>>
    /\ calls[3].op = "flush" /\ calls[3].st = "Valid" /\ calls[3].cmds = <<>>
    /\ state = "Valid"

\* the call takes the buffered path: it begins inside the device, and not on a sector
\* boundary with a caller's buffer of at least one sector
BufferedCall(c) ==
    /\ c.op \in {"read", "write"}
    /\ c.at < size
    /\ ~(c.at % SECTOR_SIZE = 0 /\ c.len >= SECTOR_SIZE)
\* the positions of the read_lba commands among the commands of the call
ReadLbaAt(c) == {i \in 1..Len(c.cmds) : c.cmds[i].cmd = "read_lba"}
\* the sector buffer the call works on: the sector loaded when the state was Invalid,
\* the buffer as it was otherwise
WorkingBuffer(c) ==
    IF state = "Invalid" THEN flash[(c.at \div SECTOR_SIZE) + 1] ELSE buffer
\* the call reaches the end of its sector, where post_io flushes and invalidates
ReachesSectorEnd(c) == (c.at % SECTOR_SIZE) + BufferedLen(c) = SECTOR_SIZE

\* C29: a call on the buffered path transfers n = min(len, 512 - offset mod 512) bytes
\* and never crosses a sector boundary; it issues exactly one read_lba, of the sector
\* offset/512 and as its first command, if and only if the cache state is Invalid, the
\* state being Valid after the load, and no read_lba when the state is Valid or Dirty;
\* a buffered read returns the n bytes of the buffer at offset mod 512, and a buffered
\* write copies its n bytes there and sets the state Dirty.  (The bytes written are
\* those of WriteData, taken element by element.)
C29_BufferedPath ==
    [][(CallStep /\ BufferedCall(ThisCall)) =>
         LET c == ThisCall
             n == BufferedLen(ThisCall)
             at == ThisCall.at % SECTOR_SIZE
             sector == ThisCall.at \div SECTOR_SIZE
             last == ThisCall.cmds[Len(ThisCall.cmds)]
         IN /\ state = "Invalid" =>
                  /\ ReadLbaAt(c) = {1}
                  /\ c.cmds[1].sector = sector
                  /\ c.cmds[1].len = SECTOR_SIZE
            /\ state # "Invalid" => ReadLbaAt(c) = {}
            /\ ~LoadFailed(c) =>
                  /\ \A i \in 1..SECTOR_SIZE :
                        buffer'[i] = IF c.op = "write" /\ i > at /\ i <= at + n
                                     THEN ((c.seed * 37 + (i - at) * 3) % 255) + 1
                                     ELSE WorkingBuffer(c)[i]
                  /\ ~ReachesSectorEnd(c) =>
                        /\ c.ok
                        /\ state' = IF c.op = "write" THEN "Dirty"
                                    ELSE IF state = "Invalid" THEN "Valid" ELSE state
                        /\ Len(c.cmds) = IF state = "Invalid" THEN 1 ELSE 0
                  /\ (ReachesSectorEnd(c) /\ c.op = "write") =>
                        /\ c.cmds # <<>>
                        /\ last.cmd = "write_lba" /\ last.sector = sector
                        /\ state' = IF c.ok THEN "Invalid" ELSE "Dirty"
                        /\ c.ok => flash'[sector + 1] = buffer'
            /\ c.ok =>
                  /\ c.n = n
                  /\ offset' = c.at + n
                  /\ sector = (offset' - 1) \div SECTOR_SIZE
                  /\ c.op = "read" =>
                        /\ Len(read_buf') = n
                        /\ \A i \in 1..n : read_buf'[i] = WorkingBuffer(c)[at + i]]_vars

\* a buffered read loaded the sector of an Invalid cache with one read_lba, a buffered
\* write then found it Valid and issued nothing, leaving it Dirty, and a buffered read
\* of a whole sector's length from there stopped at the end of the sector
C29_Witness ==
    /\ Len(calls) = 3
    /\ calls[1].op = "read" /\ calls[1].st = "Invalid" /\ calls[1].len = 3
    /\ calls[1].cmds = <<Cmd("read_lba", 0, SECTOR_SIZE, TRUE)>>
    /\ calls[2].op = "write" /\ calls[2].st = "Valid" /\ calls[2].len = 3
    /\ calls[2].cmds = <<>>
    /\ calls[3].op = "read" /\ calls[3].st = "Dirty" /\ calls[3].at = 6
    /\ calls[3].len = SECTOR_SIZE /\ calls[3].n = SECTOR_SIZE - 6
    /\ ReadLbaAt(calls[3]) = {}
    /\ offset = SECTOR_SIZE

(***************************************************************************)
(* The block adapter on a device larger than one direct transfer           *)
(***************************************************************************)
\* sectors of the large flash: more than the 128 of MAXIO_SIZE
BigSectors == 130
\* calls made on one adapter of the large flash
MaxDirectCalls == 3

\* a caller's buffer of more than MAXIO_SIZE, and not a whole number of sectors
WideLen == MAXIO_SIZE + SECTOR_SIZE + 3
\* lengths of the buffers written: within a sector, and more than MAXIO_SIZE
DirectIoLens == {3, WideLen}
\* seeks back over the bytes just written, and to the last sector
DirectSeekPositions ==
    {[whence |-> "Current", off |-> -3],
     [whence |-> "Start", off |-> (BigSectors - 1) * SECTOR_SIZE]}

\* DeviceIO::new / TransportIO::new on a flash of BigSectors sectors
InitDirect ==
    /\ OpIdle /\ MrIdle /\ AsIdle /\ WireIdle /\ ExIdle /\ DriverIdle
    /\ offset = 0
    /\ size = FlashInfo_size(FlashInfoPayload(BigSectors))
    /\ buffer = Zeros(SECTOR_SIZE)
    /\ state = "Invalid"
    /\ flash = [k \in 1..BigSectors |-> [i \in 1..SECTOR_SIZE |-> (k * 64 + i) % 256]]
    /\ calls = <<>>
    /\ read_buf = <<>>
    /\ modified = {}
    /\ sector_at_write = <<>>

NextDirect ==
    \/ Len(calls) < MaxDirectCalls /\ \E pos \in DirectSeekPositions : Seek(pos)
    \/ Len(calls) < MaxDirectCalls /\ Read(WideLen, 0)
    \/ Len(calls) < MaxDirectCalls /\ \E len \in DirectIoLens : Write(Len(calls) + 1, len, 0)

SpecDirect == InitDirect /\ [][NextDirect]_vars

\* the call takes the direct path: it begins inside the device on a sector boundary
\* with a caller's buffer of at least one sector
DirectCall(c) ==
    /\ c.op \in {"read", "write"}
    /\ c.at < size /\ c.at % SECTOR_SIZE = 0 /\ c.len >= SECTOR_SIZE
\* n = min(len, size - offset, 65536) rounded down to a multiple of 512
DirectLen(c) == (Min(Min(c.len, size - c.at), MAXIO_SIZE) \div SECTOR_SIZE) * SECTOR_SIZE
\* the command of the direct path for the call
DirectCmd(c) ==
    Cmd(IF c.op = "read" THEN "read_lba" ELSE "write_lba",
        c.at \div SECTOR_SIZE, DirectLen(c), TRUE)
\* the write-back of the sector buffer that post_io makes when the buffer is Dirty
WriteBackCmd(c) == Cmd("write_lba", c.at \div SECTOR_SIZE, SECTOR_SIZE, TRUE)
\* the n bytes move between the device and the start of the caller's buffer; the
\* first sector of a write is left to the write-back when the buffer is Dirty
DirectMoved(c) ==
    IF c.op = "read"
    THEN read_buf' = FlashRead(flash, c.at \div SECTOR_SIZE, DirectLen(c))
    ELSE \A k \in 0..(Len(flash) - 1) :
            LET j == k - (c.at \div SECTOR_SIZE)
            IN IF j >= 0 /\ j < DirectLen(c) \div SECTOR_SIZE
               THEN (j > 0 \/ state # "Dirty") =>
                       flash'[k + 1] = SubSeq(WriteData(c.seed, c.len),
                                              j * SECTOR_SIZE + 1, (j + 1) * SECTOR_SIZE)
               ELSE flash'[k + 1] = flash[k + 1]
\* what holds of every call on the direct path, whatever the cache state
DirectTransfer(c) ==
    /\ DirectLen(c) > 0 /\ DirectLen(c) % SECTOR_SIZE = 0
    /\ DirectLen(c) \div SECTOR_SIZE <= 128
    /\ c.at + DirectLen(c) <= size
    /\ c.cmds # <<>> /\ c.cmds[1] = DirectCmd(c)
    /\ \A i \in 1..Len(c.cmds) :
           /\ c.cmds[i].len \div SECTOR_SIZE <= 128
           /\ (c.cmds[i].sector * SECTOR_SIZE) + c.cmds[i].len <= size
    /\ c.ok /\ c.n = DirectLen(c) /\ offset' = c.at + DirectLen(c)
    /\ DirectMoved(c)

Transports == {"libusb", "nusb"}
\* blob lengths of the MaskRom operations the transport drives
DriverBlobLens == {100, BLOCK - 2, BLOCK}
\* bytes a bulk-in transfer may deliver less than requested
MaxShort == 1

\* one transfer made by the transport: the step it serves, the bytes requested, whether
\* it succeeded and the bytes it moved
Xfer(step, len, ok, moved) == [step |-> step, len |-> len, ok |-> ok, moved |-> moved]
\* the step operation.step() has just returned
ThisStep == op_steps'[Len(op_steps')]
ThisMrStep == mr_steps'[Len(mr_steps')]

\* `?` as it would be if the error of a transfer were dropped
AfterTransfer_Ignore(ok) == "Running"
\* `?` on the result of a transfer: an error returns from handle_operation
AfterTransfer(ok) == IF ok THEN "Running" ELSE "Returned"

\* the loop after a transfer
Transferred(x) ==
    driver' = [driver EXCEPT !.xfers = Append(@, x),
                             !.status = AfterTransfer(x.ok),
                             !.result = IF x.ok THEN @ ELSE Err("Transport", x.step)]
\* the loop after a bulk-in transfer that delivered a number of bytes other than the
\* length of the step's slice, under nusb: data.copy_from_slice(&read) panics
Panicked(x) ==
    driver' = [driver EXCEPT !.xfers = Append(@, x), !.status = "Panicked"]

\* what a bulk-in transfer leaves in the step's slice: nothing when it fails; under
\* libusb the bytes delivered; under nusb the bytes delivered if they fill the slice
Stored(want, bytes, ok) ==
    IF ~ok THEN <<>>
    ELSE IF driver.transport = "nusb" /\ Len(bytes) # want THEN <<>>
    ELSE bytes
AfterBulkIn(want, bytes, ok) ==
    IF ok /\ driver.transport = "nusb" /\ Len(bytes) # want
    THEN Panicked(Xfer(Len(driver.xfers) + 1, want, ok, Len(bytes)))
    ELSE Transferred(Xfer(Len(driver.xfers) + 1, want, ok, Len(Stored(want, bytes, ok))))

\* UsbStep::WriteBulk { data }: the CBW or the payload of an Out operation
DriveWriteBulk(ok) ==
    /\ driver.status = "Running" /\ driver.operation = "usb"
    /\ StepCommandBlock \/ StepIOOut
    /\ Transferred(Xfer(Len(driver.xfers) + 1, ThisStep.len, ok, IF ok THEN ThisStep.len ELSE 0))

\* UsbStep::ReadBulk { data } of the data phase; the device delivers `bytes`
DriveReadData(bytes, ok) ==
    /\ driver.status = "Running" /\ driver.operation = "usb"
    /\ StepIOIn(Stored(command.transfer_length, bytes, ok))
    /\ AfterBulkIn(command.transfer_length, bytes, ok)

\* UsbStep::ReadBulk { data } of the status phase; the device delivers `bytes`
DriveReadStatus(bytes, ok) ==
    /\ driver.status = "Running" /\ driver.operation = "usb"
    /\ StepCommandStatus(Stored(COMMAND_STATUS_BYTES, bytes, ok))
    /\ AfterBulkIn(COMMAND_STATUS_BYTES, bytes, ok)

\* UsbStep::WriteControl { .. }
DriveWriteControl(ok) ==
    /\ driver.status = "Running" /\ driver.operation = "maskrom"
    /\ StepWriting \/ StepDummy
    /\ Transferred(Xfer(Len(driver.xfers) + 1, Len(ThisMrStep.data), ok,
                        IF ok THEN Len(ThisMrStep.data) ELSE 0))

\* UsbStep::Finished(r) => break r.map_err(|e| e.into())
DriveFinished ==
    /\ driver.status = "Running" /\ driver.operation = "usb"
    /\ StepFinish
    /\ driver' = [driver EXCEPT !.status = "Returned", !.result = ThisStep.result]
DriveFinishedUnit ==
    /\ driver.status = "Running" /\ driver.operation = "maskrom"
    /\ StepDone
    /\ driver' = [driver EXCEPT !.status = "Returned", !.result = ThisMrStep.result]

\* handle_operation(operation) is entered
Driving(t, o) ==
    driver = [transport |-> t, operation |-> o, status |-> "Running", xfers |-> <<>>,
              result |-> <<>>]

InitTransport ==
    /\ \E t \in Transports :
         \/ Driving(t, "usb") /\ NewUsbOperation /\ MrIdle
         \/ /\ Driving(t, "maskrom")
            /\ \E a \in Areas, n \in DriverBlobLens : write_area(a, Blob(0, n))
            /\ OpIdle
    /\ IoIdle
    /\ WireIdle /\ ExIdle

\* the replies of the device to a bulk-in transfer of `want` bytes: all of them, or
\* fewer
DataReplies(want) ==
    { Pattern(seed, n) : seed \in 0..MaxFillSeed,
                         n \in {k \in (want - MaxShort)..want : k >= 0} }
StatusReplies ==
    { SubSeq(b, 1, n) : b \in CswReplies,
                        n \in (COMMAND_STATUS_BYTES - MaxShort)..COMMAND_STATUS_BYTES }

NextTransport ==
    \/ \E ok \in BOOLEAN : DriveWriteBulk(ok)
    \/ \E ok \in BOOLEAN, bytes \in DataReplies(command.transfer_length) :
         DriveReadData(bytes, ok)
    \/ \E ok \in BOOLEAN, bytes \in StatusReplies : DriveReadStatus(bytes, ok)
    \/ \E ok \in BOOLEAN : DriveWriteControl(ok)
    \/ DriveFinished
    \/ DriveFinishedUnit

SpecTransport == InitTransport /\ [][NextTransport]_vars

(***************************************************************************)
(* Claims about the transport driver (checked under SpecTransport)         *)
(***************************************************************************)
\* the steps step() has returned to handle_operation
Emitted == IF driver.operation = "usb" THEN op_steps ELSE mr_steps
\* the bytes step i asks the transport to move
StepLen(i) == IF driver.operation = "usb" THEN Emitted[i].len ELSE Len(Emitted[i].data)

\* every transfer serves the step emitted at its position, once; only the last transfer
\* may have failed
TransfersFollowSteps ==
    /\ Len(driver.xfers) <= Len(Emitted)
    /\ \A i \in 1..Len(driver.xfers) :
          /\ driver.xfers[i].step = i
          /\ Emitted[i].kind # "Finished"
          /\ driver.xfers[i].len = StepLen(i)
          /\ i < Len(driver.xfers) => driver.xfers[i].ok
\* handle_operation has returned the result of the Finished step, after one successful
\* transfer for each step before it
ReturnedFinished ==
    /\ Len(Emitted) = Len(driver.xfers) + 1
    /\ \A i \in 1..Len(driver.xfers) : driver.xfers[i].ok
    /\ Emitted[Len(Emitted)].kind = "Finished"
    /\ driver.result = Emitted[Len(Emitted)].result
\* handle_operation has returned the error of the transfer that failed, and no step
\* was asked for after it
ReturnedTransportError ==
    /\ Len(driver.xfers) >= 1
    /\ Len(Emitted) = Len(driver.xfers)
    /\ ~driver.xfers[Len(driver.xfers)].ok
    /\ driver.result = Err("Transport", Len(driver.xfers))

\* C24: handle_operation executes the steps in the order emitted, each once, and stops
\* at Finished returning its result; a failed transfer makes it return the transport
\* error at once, with no further step and no retry.
C24_HandleOperation ==
    /\ TransfersFollowSteps
    /\ driver.status \in {"Running", "Returned"}
    /\ driver.status = "Running" =>
          /\ Len(Emitted) = Len(driver.xfers)
          /\ \A i \in 1..Len(driver.xfers) : driver.xfers[i].ok
    /\ driver.status = "Returned" => ReturnedFinished \/ ReturnedTransportError

\* the same without the bulk-in transfers that deliver fewer bytes than the step's slice
C24_ExceptShortReads ==
    (\A i \in 1..Len(driver.xfers) : driver.xfers[i].ok => driver.xfers[i].moved = driver.xfers[i].len)
        => C24_HandleOperation

(***************************************************************************)
(* examples/common.rs: ExampleDevice::erase_flash                          *)
(***************************************************************************)
MAX_DIRECT_ERASE == 1024
MAX_LBA_ERASE == 32 * 1024

\* the flash id of an eMMC, "EMMC " in ASCII
EMMC == <<69, 77, 77, 67, 32>>
\* FlashId::to_str() == "EMMC ": the lossy UTF-8 reading of the 5 bytes is that string
\* exactly when the bytes are its ASCII codes
IsEmmc(id) == id = EMMC
\* Capability::check_flag(DIRECT_LBA): bit 0x01 of byte 0
Capability_direct_lba(cap) == cap[1] % 2 = 1

\* whole batches of either cap in the flashes erased
MaxEraseBatches == 2
\* sector counts: none, and around the multiples of both caps
EraseSectorCounts ==
    {0} \cup {b * MAX_DIRECT_ERASE + r : b \in 0..MaxEraseBatches, r \in {1, MAX_DIRECT_ERASE - 1, MAX_DIRECT_ERASE}}
        \cup {b * MAX_LBA_ERASE + r : b \in 0..MaxEraseBatches, r \in {1, MAX_LBA_ERASE - 1, MAX_LBA_ERASE}}
\* flash ids: an eMMC, a near miss of it, a NAND
EraseFlashIds == {EMMC, <<69, 77, 77, 67, 0>>, <<78, 65, 78, 68, 32>>}
\* capabilities: none, direct LBA, vendor storage, both
EraseCapabilities == {<<f>> \o Zeros(7) : f \in 0..3}

\* the count as it would be in an 8-bit field
AsU8(v) == v % 256
\* `count as u16`
AsU16(v) == v % 65536

\* erase_flash up to the loop: flash_info, the ensure!, flash_id, capability, max_blocks
EraseStart(sectors, id, cap) ==
    /\ erase.pc = "idle"
    /\ erase' =
         IF FlashInfo_sectors(FlashInfoPayload(sectors)) > 0
         THEN LET is_emmc == IsEmmc(id)
                  is_lba == Capability_direct_lba(cap)
              IN [pc |-> "loop", sectors |-> sectors, is_emmc |-> is_emmc, is_lba |-> is_lba,
                  max_blocks |-> IF is_emmc \/ is_lba THEN MAX_LBA_ERASE ELSE MAX_DIRECT_ERASE,
                  blocks_left |-> FlashInfo_sectors(FlashInfoPayload(sectors)),
                  first |-> 0, cmds |-> <<>>]
         ELSE [NoErase EXCEPT !.pc = "invalid flash"]
    /\ UNCHANGED <<walker, opVars, mrVars, ioVars, asVars, wireVars, trVars>>

\* one pass of `while blocks_left > 0`, the erase command succeeding or failing
EraseBatch(ok) ==
    /\ erase.pc = "loop"
    /\ erase.blocks_left > 0
    /\ LET count == Min(erase.blocks_left, erase.max_blocks)
           cmd == [cmd |-> IF erase.is_emmc \/ erase.is_lba THEN "erase_lba" ELSE "erase_force",
                   first |-> erase.first, count |-> AsU16(count), ok |-> ok]
       IN erase' = IF ok
                   THEN [erase EXCEPT !.cmds = Append(@, cmd),
                                      !.blocks_left = @ - count,
                                      !.first = @ + count]
                   ELSE [erase EXCEPT !.cmds = Append(@, cmd), !.pc = "failed"]
    /\ UNCHANGED <<walker, opVars, mrVars, ioVars, asVars, wireVars, trVars>>

\* the loop condition fails: Ok(())
EraseDone ==
    /\ erase.pc = "loop"
    /\ ~(erase.blocks_left > 0)
    /\ erase' = [erase EXCEPT !.pc = "done"]
    /\ UNCHANGED <<walker, opVars, mrVars, ioVars, asVars, wireVars, trVars>>

InitErase == OpIdle /\ MrIdle /\ IoIdle /\ WireIdle /\ ExIdle /\ DriverIdle

NextErase ==
    \/ erase.pc = "idle"
         /\ \E sectors \in EraseSectorCounts, id \in EraseFlashIds, cap \in EraseCapabilities :
                EraseStart(sectors, id, cap)
    \/ \E ok \in BOOLEAN : EraseBatch(ok)
    \/ EraseDone

SpecErase == InitErase /\ [][NextErase]_vars
\* every started erase_flash runs on
FairErase == SpecErase /\ WF_vars(NextErase)

\* the cap and the command that the flash id and the capability call for
EraseCap == IF erase.is_emmc \/ erase.is_lba THEN 32768 ELSE 1024
EraseCommand == IF erase.is_emmc \/ erase.is_lba THEN "erase_lba" ELSE "erase_force"
\* erase_flash has returned
EraseReturned == erase.pc \in {"done", "failed", "invalid flash"}

\* C31: the erase commands start at 0, are contiguous and disjoint, each of a count
\* between 1 and the cap (32768 with erase_lba for an eMMC or a direct-LBA flash, 1024
\* with erase_force otherwise) that the 16-bit field holds untruncated; when the loop
\* ends they cover exactly [0, sectors); and the loop ends.
C31_ErasePacing ==
    /\ [](erase.pc \in {"loop", "done", "failed"} =>
            /\ erase.sectors > 0
            /\ \A k \in 1..Len(erase.cmds) :
                  /\ erase.cmds[k].cmd = EraseCommand
                  /\ erase.cmds[k].count >= 1 /\ erase.cmds[k].count <= EraseCap
                  /\ erase.cmds[k].count <= 65535
                  /\ erase.cmds[k].first = IF k = 1 THEN 0
                                            ELSE erase.cmds[k - 1].first + erase.cmds[k - 1].count
                  /\ erase.cmds[k].first + erase.cmds[k].count <= erase.sectors
                  /\ k < Len(erase.cmds) => erase.cmds[k].ok
            /\ erase.pc = "done" =>
                  /\ erase.cmds # <<>>
                  /\ erase.cmds[Len(erase.cmds)].ok
                  /\ erase.cmds[Len(erase.cmds)].first + erase.cmds[Len(erase.cmds)].count
                       = erase.sectors)
    /\ [](erase.pc = "invalid flash" => erase.sectors = 0 /\ erase.cmds = <<>>)
    /\ <>EraseReturned

\* a NAND flash without direct LBA of two whole batches and one sector was erased in
\* three erase_force commands, the last of one sector
C31_Witness ==
    /\ erase.pc = "done"
    /\ ~erase.is_emmc /\ ~erase.is_lba
    /\ erase.sectors = 2 * MAX_DIRECT_ERASE + 1
    /\ Len(erase.cmds) = 3
    /\ erase.cmds[3] = [cmd |-> "erase_force", first |-> 2 * MAX_DIRECT_ERASE, count |-> 1, ok |-> TRUE]

(***************************************************************************)
(* examples/common.rs: ExampleDevice::download_boot / download_entry       *)
(***************************************************************************)
\* RkBootHeaderEntry: count u8, offset u32, size u8
RkBootHeaderEntry(count, off, sz) == [count |-> count, offset |-> off, size |-> sz]
\* the areas of entry_471 and entry_472
EntryAreas == <<1137, 1138>>

\* the largest count of sub-entries in the headers walked
MaxEntryCount == 6
\* header entries: counts none, two and MaxEntryCount; record sizes 0, the 57 bytes of
\* an RkBootEntry, 255; records right after the header and far into the file
HeaderEntries ==
    {RkBootHeaderEntry(c, o, z) : c \in {0, 2, MaxEntryCount}, o \in {102, 70000}, z \in {0, 57, 255}}
\* overflow checks on (debug) or off (release)
Builds == {"debug", "release"}

\* header.size * i in u8: [overflow, value], value being the wrapped product
MulU8(a, b) == [overflow |-> a * b > 255, value |-> (a * b) % 256]

\* download_boot: the header was read and parsed; download_entry(entry_471) begins
WalkStart(h471, h472, build) ==
    /\ walker.pc = "idle"
    /\ walker' = [pc |-> "walk", build |-> build, headers |-> <<h471, h472>>, entry |-> 1,
                  i |-> 0, reads |-> <<>>, uploads |-> <<>>]
    /\ UNCHANGED <<erase, opVars, mrVars, ioVars, asVars, wireVars, trVars>>

\* one pass of `for i in 0..header.count`: seek to the record, read it, upload its blob
WalkRecord(ok) ==
    /\ walker.pc = "walk"
    /\ walker.i < walker.headers[walker.entry].count
    /\ LET header == walker.headers[walker.entry]
           product == MulU8(header.size, walker.i)
           pos == header.offset + product.value
       IN walker' =
            IF product.overflow /\ walker.build = "debug"
            THEN [walker EXCEPT !.pc = "panic"]
            ELSE IF ~ok
            THEN [walker EXCEPT !.pc = "failed",
                                !.reads = Append(@, [entry |-> walker.entry, i |-> walker.i, pos |-> pos])]
            ELSE [walker EXCEPT !.i = @ + 1,
                                !.reads = Append(@, [entry |-> walker.entry, i |-> walker.i, pos |-> pos]),
                                !.uploads = Append(@, [area |-> EntryAreas[walker.entry], i |-> walker.i])]
    /\ UNCHANGED <<erase, opVars, mrVars, ioVars, asVars, wireVars, trVars>>

\* the loop of download_entry ends: entry_472 follows entry_471, Ok(()) follows entry_472
WalkNext ==
    /\ walker.pc = "walk"
    /\ walker.i = walker.headers[walker.entry].count
    /\ walker' = IF walker.entry = 1
                 THEN [walker EXCEPT !.entry = 2, !.i = 0]
                 ELSE [walker EXCEPT !.pc = "done"]
    /\ UNCHANGED <<erase, opVars, mrVars, ioVars, asVars, wireVars, trVars>>

InitWalk == OpIdle /\ MrIdle /\ IoIdle /\ WireIdle /\ ExIdle /\ DriverIdle

NextWalk ==
    \/ walker.pc = "idle"
         /\ \E h471 \in HeaderEntries, h472 \in HeaderEntries, build \in Builds :
                WalkStart(h471, h472, build)
    \/ \E ok \in BOOLEAN : WalkRecord(ok)
    \/ WalkNext

SpecWalk == InitWalk /\ [][NextWalk]_vars

\* the reads are made at offset + i * size
ReadsAtRecords ==
    \A k \in 1..Len(walker.reads) :
        walker.reads[k].pos = walker.headers[walker.reads[k].entry].offset
                                + walker.reads[k].i * walker.headers[walker.reads[k].entry].size
\* the uploads go in increasing i, all of area 0x471 before any of area 0x472
UploadsInOrder ==
    \A k \in 1..Len(walker.uploads) :
        /\ walker.uploads[k].area = IF k <= walker.headers[1].count THEN 1137 ELSE 1138
        /\ walker.uploads[k].i = IF k <= walker.headers[1].count THEN k - 1
                                 ELSE k - 1 - walker.headers[1].count

\* C32: for every count and record size the i-th record is read from offset + i * size,
\* computed without overflow or wrap-around, and the blobs are uploaded in increasing
\* i, all of entry_471 before any of entry_472.
C32_WalkerAddressing ==
    /\ walker.pc # "panic"
    /\ ReadsAtRecords
    /\ UploadsInOrder
    /\ walker.pc = "done" =>
          Len(walker.uploads) = walker.headers[1].count + walker.headers[2].count

\* the same for the headers whose products size * i stay within a byte
C32_WithinU8 ==
    (\A e \in 1..2 : walker.pc # "idle" =>
         walker.headers[e].size * (walker.headers[e].count - 1) <= 255)
      => C32_WalkerAddressing

(***************************************************************************)
(* The block adapter written as a stream (examples/common.rs: write_file)  *)
(***************************************************************************)
\* where the stream starts: at 0 without a seek, or after one seek
StreamStarts ==
    {[whence |-> "Start", off |-> o] : o \in {3, 509, SECTOR_SIZE, SECTOR_SIZE + 3}}
    \cup {[whence |-> "End", off |-> -3], [whence |-> "End", off |-> -SECTOR_SIZE]}
\* lengths of the buffers written: within a sector, one sector, more than the device
StreamLens == {3, SECTOR_SIZE, DevSectors * SECTOR_SIZE + 3}

NextStream ==
    \/ calls = <<>> /\ \E pos \in StreamStarts : Seek(pos)
    \/ \E len \in StreamLens : Write(Len(calls) + 1, len, 0)
    \/ Flush(0)

SpecStream == InitIO /\ [][NextStream]_vars

\* the write calls that were accepted
Accepted == {k \in 1..Len(calls) : calls[k].op = "write" /\ calls[k].ok}
\* the write calls whose accepted bytes cover position x of the device
Covering(x) == {k \in Accepted : calls[k].at <= x /\ x < calls[k].at + calls[k].n}
\* the position the stream starts at
StreamStart == IF calls # <<>> /\ calls[1].op = "seek" THEN calls[1].n ELSE 0
\* the byte that the initial content overlaid with the accepted bytes has at position x
StreamByte(x) ==
    IF Covering(x) = {} THEN FlashInit[(x \div SECTOR_SIZE) + 1][(x % SECTOR_SIZE) + 1]
    ELSE LET k == CHOOSE k \in Covering(x) : TRUE
         IN WriteDataAt(calls[k].seed, x - calls[k].at + 1)
\* the byte of the device at position x
DeviceByte(x) == flash[(x \div SECTOR_SIZE) + 1][(x % SECTOR_SIZE) + 1]

LatestCovering(x) ==
    IF Covering(x) = {} THEN 0
    ELSE CHOOSE k \in Covering(x) : \A j \in Covering(x) : j <= k
\* the byte of the most recent write covering x, the initial content when there is none
LatestByte(x) ==
    IF LatestCovering(x) = 0 THEN FlashInit[(x \div SECTOR_SIZE) + 1][(x % SECTOR_SIZE) + 1]
    ELSE WriteDataAt(calls[LatestCovering(x)].seed, x - calls[LatestCovering(x)].at + 1)

\* C34: when a direct write returns, the device holds the bytes it sent: no write_lba
\* that follows the direct one carries bytes buffered before it; and after a flush
\* the device holds, at every position, the bytes of the most recent write covering it.
C34_NoLostUpdate ==
    /\ [][(CallStep /\ ThisCall.op = "write" /\ ThisCall.kind = "Direct" /\ ThisCall.ok) =>
             \A i \in 1..ThisCall.n :
                 flash'[((ThisCall.at + i - 1) \div SECTOR_SIZE) + 1][((ThisCall.at + i - 1) % SECTOR_SIZE) + 1]
                   = WriteDataAt(ThisCall.seed, i)]_vars
    /\ []((calls # <<>> /\ Last(1).op = "flush" /\ Last(1).ok) =>
             \A x \in 0..(size - 1) : DeviceByte(x) = LatestByte(x))

(***************************************************************************)
(* The block adapter driven by a loop over one buffer (write_all,          *)
(* read_exact, std::io::copy)                                              *)
(***************************************************************************)
\* where the loop starts: at 0 without a seek, or after one seek
LoopStarts ==
    {[whence |-> "Start", off |-> o] : o \in {3, 509, SECTOR_SIZE}}
    \cup {[whence |-> "End", off |-> -3], [whence |-> "End", off |-> 0]}
\* lengths of the buffer the loop works through
LoopTotals == {1, 3, SECTOR_SIZE, SECTOR_SIZE + 3, SECTOR_SIZE + 6, 2 * SECTOR_SIZE,
               DevSectors * SECTOR_SIZE + 3}

\* the read and write calls made so far
IoCalls == {k \in 1..Len(calls) : calls[k].op \in {"read", "write"}}
\* the buffer of the loop is the buffer of its first call
LoopTotal == calls[CHOOSE k \in IoCalls : \A j \in IoCalls : k <= j].len
RECURSIVE SumN(_)
SumN(k) == IF k = 0 THEN 0 ELSE SumN(k - 1) + (IF k \in IoCalls /\ calls[k].ok THEN calls[k].n ELSE 0)
\* the bytes of the buffer consumed so far
LoopDone == SumN(Len(calls))
\* the loop has ended: the buffer is consumed, or the last call was the end-of-device
\* outcome (an error for a write, Ok(0) for a read)
LoopEnded ==
    /\ IoCalls # {}
    /\ \/ LoopDone = LoopTotal
       \/ ~Last(1).ok
       \/ Last(1).n = 0

NextLoop ==
    \/ calls = <<>> /\ \E pos \in LoopStarts : Seek(pos)
    \/ IoCalls = {} /\ \E total \in LoopTotals : Write(1, total, 0)
    \/ IoCalls = {} /\ \E total \in LoopTotals : Read(total, 0)
    \/ IoCalls # {} /\ ~LoopEnded /\ Last(1).op = "write" /\ Write(1, LoopTotal - LoopDone, 0)
    \/ IoCalls # {} /\ ~LoopEnded /\ Last(1).op = "read" /\ Read(LoopTotal - LoopDone, 0)

SpecLoop == InitIO /\ [][NextLoop]_vars

\* C35: a read or write call with a non-empty buffer at offset < size returns n with
\* 1 <= n <= buffer length and advances the offset by exactly n; at offset >= size a
\* write fails and a read returns 0, the offset staying; so a loop over the unconsumed
\* remainder of a buffer has consumed at least one byte per call made, has its next
\* call to make while it has not ended, and ends with the buffer consumed or with
\* the end-of-device outcome at offset = size.
C35_Progress ==
    /\ [][(CallStep /\ ThisCall.op \in {"read", "write"}) =>
             IF ThisCall.at < size
             THEN /\ ThisCall.ok
                  /\ ThisCall.n >= 1 /\ ThisCall.n <= ThisCall.len
                  /\ offset' = offset + ThisCall.n
             ELSE /\ ThisCall.ok = (ThisCall.op = "read") /\ ThisCall.n = 0
                  /\ offset' = offset]_vars
    /\ [](LoopEnded => LoopDone = LoopTotal \/ offset = size)
    /\ [](IoCalls # {} =>
             /\ LoopDone <= LoopTotal
             /\ Cardinality(IoCalls) <= LoopDone + 1
             /\ ~LoopEnded => Cardinality(IoCalls) <= LoopDone /\ Len(calls) < MaxCalls)

\* after a seek to 509 a write loop over 518 bytes made calls of 3 and 512 bytes and
\* ended with the end-of-device error at offset = size, 3 bytes unconsumed
C35_Witness ==
    /\ Len(calls) = 4 /\ LoopEnded
    /\ calls[1].op = "seek" /\ calls[1].n = 509
    /\ calls[2].op = "write" /\ calls[2].len = SECTOR_SIZE + 6 /\ calls[2].n = 3
    /\ calls[3].n = SECTOR_SIZE /\ calls[3].len = SECTOR_SIZE + 3
    /\ ~calls[4].ok /\ calls[4].len = 3
    /\ LoopDone = SECTOR_SIZE + 3
    /\ offset = size

(***************************************************************************)
(* Complete status under the blocking transport (libusb.rs 185-195,        *)
(* operation.rs 245-284)                                                   *)
(***************************************************************************)

\* the status-phase transfer of a finished MSC-style operation: the last one made
StatusXfer == driver.xfers[Len(driver.xfers)]

\* C37: an MSC-style operation driven by the blocking transport returns Ok only if its
\* status-phase read delivered all 13 bytes of a CSW; a status read that delivers fewer
\* bytes always ends in an error.
C37_CompleteStatus ==
    (/\ driver.transport = "libusb"
     /\ driver.operation = "usb"
     /\ driver.status = "Returned"
     /\ driver.result.ok)
        => StatusXfer.moved = COMMAND_STATUS_BYTES


(***************************************************************************)
(* The block adapter on a device that reports a residue (device.rs         *)
(* 256-264, 300-318; operation.rs 343-355)                                 *)
(***************************************************************************)
\* calls made on one adapter when device commands may report a residue
MaxResidueCalls == 3
\* the command of a call that reports a residue of one sector: none (0), its first (-1)
ShortAt == {0, -1}
\* lengths of the caller's buffers: part of a sector, two sectors
ResidueLens == {3, 2 * SECTOR_SIZE}

NextResidue ==
    \/ Len(calls) < MaxResidueCalls /\ \E len \in ResidueLens, fail \in ShortAt : Read(len, fail)
    \/ Len(calls) < MaxResidueCalls
         /\ \E len \in ResidueLens, fail \in ShortAt : Write(Len(calls) + 1, len, fail)

SpecResidue == InitIO /\ [][NextResidue]_vars

\* C38: the byte count returned by a direct read or write, and the amount by which
\* offset advances, equals the number of bytes the device reported as transferred for
\* the underlying read_lba/write_lba; and the buffer is Valid after a sector load only
\* if the device transferred all 512 bytes.
C38_TransferredHonoured ==
    [][CallStep =>
         LET c == ThisCall
         IN /\ (c.kind = "Direct" /\ c.ok)
                 => /\ c.n = c.cmds[1].moved
                    /\ offset' - offset = c.cmds[1].moved
            /\ (Loaded(c.kind, c.cmds) /\ state' = "Valid")
                 => c.cmds[1].moved = SECTOR_SIZE]_vars

(***************************************************************************)
(* The one-shot upload of src/examples/rockusb.rs (download_entry) and the *)
(* step-wise engine (operation.rs 91-152)                                  *)
(***************************************************************************)
\* handle.write_control(request_type, request, value, index, data, timeout)
write_control(request_type, request, value, index, data) ==
    [request_type |-> request_type, request |-> request, value |-> value,
     index |-> index, data |-> data]

\* data.chunks(n): consecutive slices of n bytes, the last one possibly shorter
RECURSIVE chunks(_, _)
chunks(data, n) ==
    IF Len(data) = 0 THEN <<>>
    ELSE <<SubSeq(data, 1, Min(n, Len(data)))>> \o chunks(SubSeq(data, n + 1, Len(data)), n)

\* download_entry, from the data of one entry on: the write_control calls it makes
download_entry(code, entry_data) ==
    LET padded == IF Len(entry_data) % 4096 = 4095 THEN entry_data \o <<0>> ELSE entry_data
        crc == Crc16(padded)
        data == padded \o << crc \div 256, crc % 256 >>
        sent_chunks == chunks(data, 4096)
    IN [i \in 1..Len(sent_chunks) |-> write_control(64, 12, 0, code, sent_chunks[i])]
       \o (IF Len(data) % 4096 = 0 THEN << write_control(64, 12, 0, code, <<0>>) >> ELSE <<>>)

\* the (request_type, request, value, index, data) of the WriteControl steps the engine
\* has emitted so far
EngineWrites ==
    [i \in 1..Len(ControlSteps) |->
        write_control(ControlSteps[i].request_type, ControlSteps[i].request,
                      ControlSteps[i].value, ControlSteps[i].index, ControlSteps[i].data)]

\* C39: for every blob and area, the sequence of WriteControl tuples the step-wise
\* engine has emitted when it is done equals the sequence of write_control calls of the
\* one-shot procedure.
C39_EngineIsReference ==
    UploadDone => EngineWrites = download_entry(area, mr_data)

\* a blob of 4096 + 4095 bytes to area 0x472 went out as two full chunks, the second
\* ending in the 0x00, and the two CRC bytes, as the one-shot procedure sends it
C39_Witness ==
    /\ UploadDone /\ BlobLen = BLOCK + 4095 /\ area = 1138
    /\ Len(EngineWrites) = 3
    /\ EngineWrites = download_entry(1138, mr_data)
    /\ EngineWrites[2].data[4096] = 0
    /\ Len(EngineWrites[3].data) = 2

(***************************************************************************)
(* The async adapter polled to completion, next to the blocking adapter    *)
(* (device.rs 388-420, 468-601)                                            *)
(***************************************************************************)
\* poll_* calls made on the adapter that is polled to completion
MaxEquivPolls == 3
\* lengths of the caller's buffers: within a sector, a sector, more than MAXIO_SIZE
EquivReadLens == {3, SECTOR_SIZE}
EquivWriteLens == {3, WideLen}

\* the poll starts an operation on an idle adapter, or polls again the operation in
\* flight with the buffer it was started with
SameOperation(op, len) ==
    \/ io_state.kind = "Idle"
    \/ io_state.kind = op /\ Future(op, len, io_state.seed).len = io_state.len
\* a buffer of more than MAXIO_SIZE bytes is written by the first operation of a run
WideFirst(len) == len > MAXIO_SIZE => (polls = <<>> \/ io_state.kind = "Write")
\* the seed of the data of the operation a poll serves
PollSeed == IF io_state.kind = "Idle" THEN Len(polls) + 1 ELSE io_state.seed

\* Read::read / Write::write / Write::flush of the blocking adapter on the inner state:
\* [st, err, n, data]
BlockingCall(op, len, seed) ==
    CASE op = "Read" -> do_read(Inner, len, 0)
      [] op = "Write" -> do_write(Inner, WriteData(seed, len), 0) @@ [data |-> <<>>]
      [] op = "Flush" -> flush_buffer(Inner, 0) @@ [n |-> 0, data |-> <<>>]

\* the state, the error flag and the count the blocking call ends with
BlockingOutcome(op, len, seed) ==
    LET b == BlockingCall(op, len, seed) IN [st |-> b.st, err |-> b.err, n |-> b.n]

NextEquiv ==
    \/ \E pos \in AsyncSeekPositions :
         Len(polls) < MaxEquivPolls /\ io_state.kind = "Idle" /\ PollSeek(pos)
    \/ \E len \in EquivReadLens, ready \in BOOLEAN :
         Len(polls) < MaxEquivPolls /\ SameOperation("Read", len) /\ PollRead(len, ready)
    \/ \E len \in EquivWriteLens, ready \in BOOLEAN :
         /\ Len(polls) < MaxEquivPolls /\ SameOperation("Write", len)
         /\ WideFirst(len)
         /\ PollWrite(PollSeed, len, ready)
    \/ \E ready \in BOOLEAN :
         Len(polls) < MaxEquivPolls /\ SameOperation("Flush", 0) /\ PollFlush(ready)

SpecEquiv == InitAsync /\ [][NextEquiv]_vars

\* C40: when each asynchronous operation is polled to completion before the next one
\* starts, every poll either leaves the adapter as it was with the operation pending, or
\* completes it with the device commands, the result, the bytes read, the offset, the
\* sector buffer, the cache state and the device contents that the blocking adapter's
\* call has on the same state; a seek has the result and the offset of the blocking seek.
C40_AsyncIsBlocking ==
    [][PollStep =>
         IF ThisPoll.op = "Seek"
         THEN /\ ThisPoll.outcome = "Ready" /\ ThisPoll.ok
              /\ ThisPoll.n = do_seek(Inner, ThisPoll.pos)
              /\ offset' = do_seek(Inner, ThisPoll.pos)
              /\ buffer' = buffer /\ state' = state /\ flash' = flash
         ELSE /\ ThisPoll.outcome \in {"Pending", "Ready"}
              /\ ThisPoll.outcome = "Pending" =>
                   /\ ThisPoll.cmds = <<>>
                   /\ offset' = offset /\ buffer' = buffer /\ state' = state /\ flash' = flash
              /\ ThisPoll.outcome = "Ready" =>
                   /\ [st |-> [offset |-> offset', size |-> size, buffer |-> buffer',
                               state |-> state', flash |-> flash', cmds |-> ThisPoll.cmds],
                       err |-> ~ThisPoll.ok, n |-> ThisPoll.n]
                        = BlockingOutcome(ThisPoll.op, ThisPoll.len, PollSeed)
                   /\ (ThisPoll.op = "Read" /\ ThisPoll.ok) =>
                        read_buf' = BlockingCall("Read", ThisPoll.len, 0).data]_vars

\* a write of more than MAXIO_SIZE bytes was started and then completed by a second poll
\* with one write_lba of the two sectors the device has, and a seek went to offset 100
C40_Witness ==
    /\ Len(polls) = 3
    /\ polls[1].op = "Write" /\ polls[1].len = WideLen /\ polls[1].outcome = "Pending"
    /\ polls[2].op = "Write" /\ polls[2].outcome = "Ready" /\ polls[2].ok
    /\ polls[2].n = 2 * SECTOR_SIZE /\ Len(polls[2].cmds) = 1
    /\ polls[2].cmds[1].cmd = "write_lba" /\ polls[2].cmds[1].len = 2 * SECTOR_SIZE
    /\ flash[2][SECTOR_SIZE] = WriteDataAt(1, 2 * SECTOR_SIZE)
    /\ polls[3].op = "Seek" /\ polls[3].n = 100
    /\ offset = 100 /\ state = "Invalid" /\ io_state = IdleState

====
